---- MODULE Spec2Model ----
(***************************************************************************)
(* A model of pgeon's connection pool (src/src/pool.ts) and of the backend *)
(* message driver it runs its protocol phases on (backend.ts).             *)
(*                                                                         *)
(* Spec      the pool: sockets being opened, open, closed; the borrowers   *)
(*           of borrowConnection; the callback's result future is an       *)
(*           event (Settle).                                               *)
(* ConnSpec  a pool of one open connection and the wire behind it: the     *)
(*           phases run, transaction and their statements register on the  *)
(*           connection, the frontend batches written, the server, the     *)
(*           backend messages delivered in chunks, the out-of-band         *)
(*           CancelRequest.                                                *)
(* SqlSpec, TimestampSpec, NumericSpec, RetrySpec, ReaderSpec              *)
(*           one function by itself, applied to each of its arguments:     *)
(*           sql, writeTimestamp / readTimestamp, writeNumeric /           *)
(*           readNumeric (src/src/serialization.ts), the retry chain of    *)
(*           tryOpenConnection, and onData of handleBackendMessage byte by *)
(*           byte.                                                         *)
(* StartupSpec, PhaseSpec                                                  *)
(*           one protocol phase and the backend messages it is handed:     *)
(*           handleStartupPhase, handleQueryPreparation and                *)
(*           handleQueryExecution.                                         *)
(* CacheSpec one connection, leased to one run() after another: its        *)
(*           preparedQueries, the handlers registered on it and the        *)
(*           statements the server holds.                                  *)
(* CancelSpec one query future, the lease of its connection and the cancel *)
(*           connections its cancel() opens.                               *)
(* LiveSpec  the pool of Spec with a server that accepts every connection  *)
(*           and answers every query, under fairness.                      *)
(***************************************************************************)
EXTENDS Integers, Sequences, FiniteSets, TLC

\* ------------------------------------------------------------- bounds
MaxSockets == 3
MaxTasks == 3
\* ConnSpec: borrowers, query futures, statements a transaction body issues,
\* cancel() calls on a connection, transaction() calls
MaxConnTasks == 2
MaxQueries == 2
MaxBodyStatements == 2
MaxCancels == 1
MaxCancelCalls == 2
MaxTransactions == 1

\* ------------------------------------------------- program constants
DefaultMinConnections == 2
DefaultMaxConnections == 8

Socks == 1..MaxSockets
Tasks == 1..MaxTasks
NoConn == 0
QIds == 1..MaxQueries
ConnTasks == 1..MaxConnTasks
NoQuery == 0

VARIABLES
    minConnections,        \* options.minConnections, after the defaults
    maxConnections,        \* options.maxConnections, after the defaults
    openingConnections,    \* let openingConnections
    openConnections,       \* const openConnections: Connection[]
    availableConnections,  \* const availableConnections: Connection[]
    waitingForConnection,  \* the resolvers of the waiters' connPromise, by borrower
    sock,                  \* each socket: unused, opening, alive, destroyed, closed;
                           \* closedTimerPending: closed, its connectTimeout timer still set
    retryTimers,           \* pending setTimeout(() => tryOpenConnection(..)) timers
    task,                  \* each borrower of borrowConnection
    query,                 \* each prepareAndRunQuery call: its async body and phase handler
    tx,                    \* each transaction callback: its async body and phase handler
    toServer,              \* frontend batches written to the connection, not yet read
    toClient,              \* backend messages sent by the server, not yet delivered
    srv,                   \* the connection's backend process
    cancelInFlight,        \* CancelRequests written, not yet handled by the server
    unacked,               \* Sync / Query messages written whose ReadyForQuery has not arrived
    arg,                   \* the arguments of a function studied by itself
    ret                    \* what that function has computed so far

poolVars == <<minConnections, maxConnections, openingConnections, openConnections,
              availableConnections, waitingForConnection, sock, retryTimers>>

wireVars == <<query, tx, toServer, toClient, srv, cancelInFlight, unacked>>

callVars == <<arg, ret>>

vars == <<poolVars, task, wireVars, callVars>>

\* ------------------------------------------------------------ helpers
Last(s) == s[Len(s)]
Front(s) == SubSeq(s, 1, Len(s) - 1)
Range(s) == {s[i] : i \in 1..Len(s)}

\* arr.indexOf(x) followed by arr.splice(idx, 1) when idx > -1
SpliceOut(s, x) ==
    IF x \in Range(s)
    THEN LET i == CHOOSE k \in 1..Len(s) : s[k] = x /\ \A j \in 1..(k - 1) : s[j] # x
         IN SubSeq(s, 1, i - 1) \o SubSeq(s, i + 1, Len(s))
    ELSE s

\* options.x = options.x || dflt: an option that is missing or 0 takes the default
OrDefault(opt, dflt) == IF opt = 0 THEN dflt ELSE opt

\* The options a pool is built with (0: the option is not given); the pools
\* modelled are those whose minimum does not exceed their maximum.
MinOptions == {0, 1, 2}
MaxOptions == {1, 2}

IdleTask == [pc |-> "idle", conn |-> NoConn, cancelled |-> FALSE, lends |-> 0, kind |-> "none",
             outcome |-> "none"]

\* createTcpConnection: the next socket is a new one
HasFreshSock == \E s \in Socks : sock[s] = "unused"
FreshSock == CHOOSE s \in Socks : sock[s] = "unused" /\ \A r \in Socks : r < s => sock[r] # "unused"

\* -------------------------------------------------------- lendConnection
\* The mutant hands the connection to the first waiter and also pushes it.
lendConnectionAlsoPushes(conn, avail, waiting, tk) ==
    IF Len(waiting) > 0
    THEN [avail |-> Append(avail, conn),
          waiting |-> Tail(waiting),
          tk |-> [tk EXCEPT ![Head(waiting)].pc = "handed", ![Head(waiting)].conn = conn]]
    ELSE [avail |-> Append(avail, conn), waiting |-> waiting, tk |-> tk]

\* The mutant serves the waiter that was enqueued last.
lendConnectionToLastWaiter(conn, avail, waiting, tk) ==
    IF Len(waiting) > 0
    THEN [avail |-> avail,
          waiting |-> Front(waiting),
          tk |-> [tk EXCEPT ![Last(waiting)].pc = "handed", ![Last(waiting)].conn = conn]]
    ELSE [avail |-> Append(avail, conn), waiting |-> waiting, tk |-> tk]

\* The mutant pushes the connection whether or not a borrower waits.
lendConnectionIgnoresWaiters(conn, avail, waiting, tk) ==
    [avail |-> Append(avail, conn), waiting |-> waiting, tk |-> tk]

\* lendConnection(conn): the first waiter's connPromise is resolved with conn (its
\* then-callback, RunWaiter, runs later), or conn is pushed onto availableConnections.
lendConnection(conn, avail, waiting, tk) ==
    IF Len(waiting) > 0
    THEN [avail |-> avail,
          waiting |-> Tail(waiting),
          tk |-> [tk EXCEPT ![Head(waiting)].pc = "handed", ![Head(waiting)].conn = conn]]
    ELSE [avail |-> Append(avail, conn), waiting |-> waiting, tk |-> tk]

\* ------------------------------------------------- backend messages
\* Backend messages by their type tag (enum BackendMessage); "E57014" is an
\* ErrorResponse whose SQLSTATE is 57014 query_canceled, "E" one with another code.
ParseComplete == "1"
BindComplete == "2"
CommandComplete == "C"
DataRow == "D"
NoData == "n"
ParameterDescription == "t"
ReadyForQuery == "Z"
RowDescription == "T"
ErrorResponse == "E"
ErrorResponseCancelled == "E57014"

IsErrorResponse(m) == m \in {ErrorResponse, ErrorResponseCancelled}

\* The frame's length in bytes: the tag, the int32 length, the payload. ParseComplete,
\* BindComplete and NoData have no payload; ReadyForQuery has one byte; the others
\* are given the length of a small instance.
ByteLength(m) ==
    CASE m \in {ParseComplete, BindComplete, NoData} -> 5
      [] m = ReadyForQuery -> 6
      [] m = ParameterDescription -> 7
      [] m = CommandComplete -> 13
      [] OTHER -> 32

RECURSIVE BufferLength(_)
BufferLength(data) == IF data = <<>> THEN 0 ELSE ByteLength(Head(data)) + BufferLength(Tail(data))

\* A phase's handler: handleBackendMessage's closure (dataLeftover) and the flags of
\* the messageHandler it was given.
NoHandler == [kind |-> "none", parseCompleted |-> FALSE, paramTypesFetched |-> FALSE,
              rowMetadataFetched |-> FALSE, bindingCompleted |-> FALSE,
              commandCompleted |-> FALSE, dataLeftover |-> <<>>]

\* handleSimpleQueryExecution(conn)
handleSimpleQueryExecution == [NoHandler EXCEPT !.kind = "simple"]
\* handleQueryPreparation(conn)
handleQueryPreparation == [NoHandler EXCEPT !.kind = "prep"]
\* handleQueryExecution(conn, rowMetadata, skipParse)
handleQueryExecution(skipParse) == [NoHandler EXCEPT !.kind = "exec", !.parseCompleted = skipParse]

\* The messageHandler of each phase: its response to one message and its flags after.
simpleMessageHandler(h, m) ==
    IF m = CommandComplete
    THEN [resp |-> "DONE_PARTIAL", h |-> [h EXCEPT !.commandCompleted = TRUE]]
    ELSE IF m = ReadyForQuery
    THEN [resp |-> IF h.commandCompleted THEN "DONE_FINAL" ELSE "FAIL", h |-> h]
    ELSE [resp |-> "UNPROCESSED", h |-> h]

\* The prepare mutant does not ask for the ParameterDescription.
prepMessageHandlerNoParamTypes(h, m) ==
    IF m = ParseComplete
    THEN [resp |-> "DONE_PARTIAL", h |-> [h EXCEPT !.parseCompleted = TRUE]]
    ELSE IF m = ParameterDescription
    THEN [resp |-> "DONE_PARTIAL", h |-> [h EXCEPT !.paramTypesFetched = TRUE]]
    ELSE IF m = RowDescription
    THEN [resp |-> "DONE_PARTIAL", h |-> [h EXCEPT !.rowMetadataFetched = TRUE]]
    ELSE IF m = ReadyForQuery \/ m = NoData
    THEN [resp |-> IF h.parseCompleted /\ (h.rowMetadataFetched \/ m = NoData)
                   THEN "DONE_FINAL" ELSE "FAIL",
          h |-> h]
    ELSE [resp |-> "UNPROCESSED", h |-> h]

prepMessageHandler(h, m) ==
    IF m = ParseComplete
    THEN [resp |-> "DONE_PARTIAL", h |-> [h EXCEPT !.parseCompleted = TRUE]]
    ELSE IF m = ParameterDescription
    THEN [resp |-> "DONE_PARTIAL", h |-> [h EXCEPT !.paramTypesFetched = TRUE]]
    ELSE IF m = RowDescription
    THEN [resp |-> "DONE_PARTIAL", h |-> [h EXCEPT !.rowMetadataFetched = TRUE]]
    ELSE IF m = ReadyForQuery \/ m = NoData
    THEN [resp |-> IF h.parseCompleted
                      /\ (h.paramTypesFetched /\ (h.rowMetadataFetched \/ m = NoData))
                   THEN "DONE_FINAL" ELSE "FAIL",
          h |-> h]
    ELSE [resp |-> "UNPROCESSED", h |-> h]

\* The execute mutant does not ask for the CommandComplete.
execMessageHandlerNoCommandComplete(h, m) ==
    IF m = DataRow
    THEN [resp |-> "DONE_PARTIAL", h |-> h]
    ELSE IF m = ParseComplete
    THEN [resp |-> "DONE_PARTIAL", h |-> [h EXCEPT !.parseCompleted = TRUE]]
    ELSE IF m = BindComplete
    THEN [resp |-> "DONE_PARTIAL", h |-> [h EXCEPT !.bindingCompleted = TRUE]]
    ELSE IF m = CommandComplete
    THEN [resp |-> "DONE_PARTIAL", h |-> [h EXCEPT !.commandCompleted = TRUE]]
    ELSE IF m = ReadyForQuery
    THEN [resp |-> IF h.parseCompleted /\ h.bindingCompleted THEN "DONE_FINAL" ELSE "FAIL",
          h |-> h]
    ELSE [resp |-> "UNPROCESSED", h |-> h]

execMessageHandler(h, m) ==
    IF m = DataRow
    THEN [resp |-> "DONE_PARTIAL", h |-> h]
    ELSE IF m = ParseComplete
    THEN [resp |-> "DONE_PARTIAL", h |-> [h EXCEPT !.parseCompleted = TRUE]]
    ELSE IF m = BindComplete
    THEN [resp |-> "DONE_PARTIAL", h |-> [h EXCEPT !.bindingCompleted = TRUE]]
    ELSE IF m = CommandComplete
    THEN [resp |-> "DONE_PARTIAL", h |-> [h EXCEPT !.commandCompleted = TRUE]]
    ELSE IF m = ReadyForQuery
    THEN [resp |-> IF h.parseCompleted /\ h.bindingCompleted /\ h.commandCompleted
                   THEN "DONE_FINAL" ELSE "FAIL",
          h |-> h]
    ELSE [resp |-> "UNPROCESSED", h |-> h]

messageHandler(h, m) ==
    CASE h.kind = "simple" -> simpleMessageHandler(h, m)
      [] h.kind = "prep" -> prepMessageHandler(h, m)
      [] h.kind = "exec" -> execMessageHandler(h, m)

\* handleBackendMessage's onData over a buffer of whole frames: what the phase's
\* promise becomes ("pending", "resolved", or "rejected" with the failure) and the
\* handler after. After onComplete() the rest of the buffer changes nothing.
RECURSIVE onDataBuffer(_, _)
onDataBuffer(h, data) ==
    IF BufferLength(data) <= 5
    THEN [res |-> "pending", h |-> [h EXCEPT !.dataLeftover = data]]
    ELSE LET m == Head(data)
             r == messageHandler(h, m)
         IN CASE r.resp = "FAIL" -> [res |-> "rejected", err |-> "ProtocolError", h |-> NoHandler]
              [] r.resp = "DONE_FINAL" -> [res |-> "resolved", h |-> NoHandler]
              [] r.resp = "UNPROCESSED" /\ IsErrorResponse(m) ->
                    [res |-> "rejected",
                     err |-> IF m = ErrorResponseCancelled THEN "PostgresError57014"
                             ELSE "PostgresError",
                     h |-> NoHandler]
              [] OTHER -> IF Len(data) > 1
                          THEN onDataBuffer(r.h, Tail(data))
                          ELSE [res |-> "pending", h |-> r.h]

\* function onData(data): the leftover is put before the new bytes.
onData(h, data) == onDataBuffer([h EXCEPT !.dataLeftover = <<>>], h.dataLeftover \o data)

\* ---------------------------------------------------- wire-level state
\* A prepareAndRunQuery call. st: where its async body stands; top: its promise is
\* the lease's resultPromise (pool.run) and not a transaction's statement; creq: the
\* cancelledPromise of the latest cancelCurrentQuery; cancels: the calls of cancel(),
\* each of which opened a cancel connection.
NoQueryRec == [st |-> "unused", owner |-> 0, top |-> FALSE, cancelled |-> FALSE,
               cancels |-> 0, creq |-> "none", outcome |-> "none", err |-> "none",
               h |-> NoHandler]

\* A transaction callback. log: the simple queries written; sync: the body has not
\* been suspended yet; floating: a statement was issued and not awaited; bodyResult:
\* how the body ended; err: the error the catch callback rethrows after rollback.
NoTx == [st |-> "none", h |-> NoHandler, log |-> <<>>, stmts |-> 0, awaiting |-> NoQuery,
         beginOk |-> FALSE, sync |-> TRUE, floating |-> FALSE, bodyResult |-> "none",
         err |-> "none"]

IdleServer == [cancelled |-> FALSE]

NoCall == [fn |-> "none"]

WireInit ==
    /\ query = [q \in QIds |-> NoQueryRec]
    /\ tx = [t \in Tasks |-> NoTx]
    /\ toServer = <<>>
    /\ toClient = <<>>
    /\ srv = IdleServer
    /\ cancelInFlight = 0
    /\ unacked = 0

HasFreshQuery == \E q \in QIds : query[q].st = "unused"
FreshQuery == CHOOSE q \in QIds : query[q].st = "unused" /\ \A r \in QIds : r < q => query[r].st # "unused"

PhaseEnded == {"prepResolved", "prepRejected", "execResolved", "execRejected"}
TxPhaseEnded == {"beginResolved", "beginRejected", "commitResolved", "commitRejected",
                 "rollbackResolved", "rollbackRejected"}

\* A promise reaction is queued: it runs before the next timer, I/O event or call.
Urgent ==
    \/ \E t \in Tasks : task[t].pc \in {"handed", "settled"}
    \/ \E q \in QIds : \/ query[q].st \in PhaseEnded
                       \/ query[q].st = "awaitCancel" /\ query[q].creq \in {"written", "failed"}
    \/ \E t \in Tasks : tx[t].st \in TxPhaseEnded \cup {"bodyRun"}

Quiet == ~Urgent

\* ------------------------------------------------------------- Init
Init ==
    /\ \E mn \in MinOptions, mx \in MaxOptions :
          /\ OrDefault(mn, DefaultMinConnections) <= OrDefault(mx, DefaultMaxConnections)
          /\ minConnections = OrDefault(mn, DefaultMinConnections)
          /\ maxConnections = OrDefault(mx, DefaultMaxConnections)
    \* for (let i = 0; i < options.minConnections; ++i) tryOpenConnection()
    /\ openingConnections = minConnections
    /\ sock = [s \in Socks |-> IF s <= minConnections THEN "opening" ELSE "unused"]
    /\ openConnections = <<>>
    /\ availableConnections = <<>>
    /\ waitingForConnection = <<>>
    /\ retryTimers = 0
    /\ task = [t \in Tasks |-> IdleTask]
    /\ WireInit
    /\ arg = NoCall
    /\ ret = NoCall

\* ------------------------------------------------------------ actions
\* borrowConnection(callback), called by run, getQueryMetadata or transaction.
borrowConnection(t, k) ==
    /\ task[t].pc = "idle"
    /\ \A u \in Tasks : u < t => task[u].pc # "idle"
    /\ IF Len(availableConnections) > 0
       THEN /\ availableConnections' = Front(availableConnections)
            /\ task' = [task EXCEPT ![t] = [@ EXCEPT !.pc = "leased", !.kind = k,
                                                     !.conn = Last(availableConnections)]]
            /\ UNCHANGED <<openingConnections, sock, waitingForConnection>>
       ELSE /\ IF Len(openConnections) + openingConnections < maxConnections
               THEN /\ HasFreshSock
                    /\ openingConnections' = openingConnections + 1
                    /\ sock' = [sock EXCEPT ![FreshSock] = "opening"]
               ELSE UNCHANGED <<openingConnections, sock>>
            /\ waitingForConnection' = Append(waitingForConnection, t)
            /\ task' = [task EXCEPT ![t] = [@ EXCEPT !.pc = "waiting", !.kind = k]]
            /\ UNCHANGED availableConnections
    /\ UNCHANGED <<minConnections, maxConnections, openConnections, retryTimers>>

\* The mutant rejects a cancelled waiter without lending the connection it was given.
RunWaiterKeepsConnection(t) ==
    /\ task[t].pc = "handed"
    /\ IF task[t].cancelled
       THEN task' = [task EXCEPT ![t].pc = "cancelled", ![t].outcome = "QueryCancelledError"]
       ELSE task' = [task EXCEPT ![t].pc = "leased"]
    /\ UNCHANGED poolVars

\* The then-callback of a waiter's connPromise.
RunWaiter(t) ==
    /\ task[t].pc = "handed"
    /\ IF task[t].cancelled
       THEN LET r == lendConnection(task[t].conn, availableConnections, waitingForConnection, task)
            IN /\ availableConnections' = r.avail
               /\ waitingForConnection' = r.waiting
               /\ task' = [r.tk EXCEPT ![t].pc = "cancelled", ![t].lends = @ + 1,
                                       ![t].outcome = "QueryCancelledError"]
       ELSE /\ task' = [task EXCEPT ![t].pc = "leased"]
            /\ UNCHANGED <<availableConnections, waitingForConnection>>
    /\ UNCHANGED <<minConnections, maxConnections, openingConnections, openConnections,
                   sock, retryTimers>>

\* wrappingPromise.cancel = () => cancelled = true, while the borrower waits
CancelWaiting(t) ==
    /\ task[t].pc \in {"waiting", "handed"}
    /\ ~task[t].cancelled
    /\ task' = [task EXCEPT ![t].cancelled = TRUE]
    /\ UNCHANGED poolVars

\* The callback's result future settles, fulfilled or rejected.
Settle(t) ==
    /\ task[t].pc = "leased"
    /\ task' = [task EXCEPT ![t].pc = "settled"]
    /\ UNCHANGED poolVars

\* The mutant lends the connection when the callback is called, not in finally.
FinallyBeforeSettled(t) ==
    /\ task[t].pc \in {"leased", "settled"}
    /\ LET r == lendConnection(task[t].conn, availableConnections, waitingForConnection, task)
       IN /\ availableConnections' = r.avail
          /\ waitingForConnection' = r.waiting
          /\ task' = [r.tk EXCEPT ![t].pc = IF task[t].pc = "settled" THEN "returned" ELSE @,
                                  ![t].lends = @ + 1]
    /\ UNCHANGED <<minConnections, maxConnections, openingConnections, openConnections,
                   sock, retryTimers>>

\* resultPromise.finally(() => lendConnection(conn))
Finally(t) ==
    /\ task[t].pc = "settled"
    /\ LET r == lendConnection(task[t].conn, availableConnections, waitingForConnection, task)
       IN /\ availableConnections' = r.avail
          /\ waitingForConnection' = r.waiting
          /\ task' = [r.tk EXCEPT ![t].pc = "returned", ![t].lends = @ + 1]
    /\ UNCHANGED <<minConnections, maxConnections, openingConnections, openConnections,
                   sock, retryTimers>>

\* openConnection resolved: the then-callback and the finally of tryOpenConnection.
ConnectSuccess(s) ==
    /\ sock[s] = "opening"
    /\ sock' = [sock EXCEPT ![s] = "alive"]
    /\ openConnections' = Append(openConnections, s)
    /\ LET r == lendConnection(s, availableConnections, waitingForConnection, task)
       IN /\ availableConnections' = r.avail
          /\ waitingForConnection' = r.waiting
          /\ task' = r.tk
    /\ openingConnections' = openingConnections - 1
    /\ UNCHANGED <<minConnections, maxConnections, retryTimers>>

\* openConnection rejected: onError, then the catch-callback and the finally of
\* tryOpenConnection. onError is called by the connectTimeout timer, or by 'error',
\* 'close' or a failed startup, and these leave the timer set: clearTimeout is called
\* where the startup phase succeeds only.
ConnectFailure(s, cause) ==
    /\ sock[s] = "opening"
    /\ sock' = [sock EXCEPT ![s] = IF cause = "timeout" THEN "closed" ELSE "closedTimerPending"]
    /\ retryTimers' = IF Len(openConnections) < minConnections
                      THEN retryTimers + 1 ELSE retryTimers
    /\ openingConnections' = openingConnections - 1
    /\ UNCHANGED <<minConnections, maxConnections, openConnections, availableConnections,
                   waitingForConnection, task>>

\* The retry timer fires: tryOpenConnection(..)
RetryFires ==
    /\ retryTimers > 0
    /\ HasFreshSock
    /\ retryTimers' = retryTimers - 1
    /\ openingConnections' = openingConnections + 1
    /\ sock' = [sock EXCEPT ![FreshSock] = "opening"]
    /\ UNCHANGED <<minConnections, maxConnections, openConnections, availableConnections,
                   waitingForConnection, task>>

\* The connectTimeout timer of an attempt that has failed fires: onError again, whose
\* reject and conn.destroy change nothing any more.
ConnectTimeoutFires(s) ==
    /\ sock[s] = "closedTimerPending"
    /\ sock' = [sock EXCEPT ![s] = "closed"]
    /\ UNCHANGED <<minConnections, maxConnections, openingConnections, openConnections,
                   availableConnections, waitingForConnection, retryTimers, task>>

\* conn.on('timeout'): the socket saw no traffic for idleTimeout.
IdleTimeout(s) ==
    /\ sock[s] = "alive"
    /\ Len(openConnections) > minConnections
    /\ sock' = [sock EXCEPT ![s] = "destroyed"]
    /\ UNCHANGED <<minConnections, maxConnections, openingConnections, openConnections,
                   availableConnections, waitingForConnection, retryTimers, task>>

\* conn.on('close'): the socket was destroyed, or the peer closed it.
SocketClose(s) ==
    /\ sock[s] \in {"alive", "destroyed"}
    /\ sock' = [sock EXCEPT ![s] = "closed"]
    /\ openConnections' = SpliceOut(openConnections, s)
    /\ availableConnections' = SpliceOut(availableConnections, s)
    /\ UNCHANGED <<minConnections, maxConnections, openingConnections,
                   waitingForConnection, retryTimers, task>>

\* destroy(), called once: every open socket is destroyed (its 'close' comes later)
\* and the counters, the arrays and the options are set to 0. The resolvers of the
\* waiters are dropped with the queue: their futures stay pending.
destroy ==
    /\ maxConnections > 0
    /\ sock' = [s \in Socks |-> IF s \in Range(openConnections) /\ sock[s] = "alive"
                                THEN "destroyed" ELSE sock[s]]
    /\ openingConnections' = 0
    /\ openConnections' = <<>>
    /\ waitingForConnection' = <<>>
    /\ availableConnections' = <<>>
    /\ minConnections' = 0
    /\ maxConnections' = 0
    /\ UNCHANGED <<retryTimers, task>>

Next ==
    \/ \E t \in Tasks : borrowConnection(t, "op") /\ UNCHANGED <<wireVars, callVars>>
    \/ \E t \in Tasks : RunWaiter(t) /\ UNCHANGED <<wireVars, callVars>>
    \/ \E t \in Tasks : CancelWaiting(t) /\ UNCHANGED <<wireVars, callVars>>
    \/ \E t \in Tasks : Settle(t) /\ UNCHANGED <<wireVars, callVars>>
    \/ \E t \in Tasks : Finally(t) /\ UNCHANGED <<wireVars, callVars>>
    \/ \E s \in Socks : ConnectSuccess(s) /\ UNCHANGED <<wireVars, callVars>>
    \/ \E s \in Socks, cause \in {"timeout", "error"} : ConnectFailure(s, cause) /\ UNCHANGED <<wireVars, callVars>>
    \/ \E s \in Socks : ConnectTimeoutFires(s) /\ UNCHANGED <<wireVars, callVars>>
    \/ RetryFires /\ UNCHANGED <<wireVars, callVars>>
    \/ \E s \in Socks : IdleTimeout(s) /\ UNCHANGED <<wireVars, callVars>>
    \/ \E s \in Socks : SocketClose(s) /\ UNCHANGED <<wireVars, callVars>>
    \/ destroy /\ UNCHANGED <<wireVars, callVars>>

Spec == Init /\ [][Next]_vars

\* =================================================================== wire
\* conn.write(batch): each batch ends in a Sync (or is one Query message).
Written(batch, toSrv, unack) == [toServer |-> Append(toSrv, batch), unacked |-> unack + 1]

\* The query's promise settles; whoever awaits it is resumed: the lease's finally
\* (pool.run), or the transaction body that awaits the statement.
QuerySettled(q, outcome) ==
    LET t == query[q].owner
    IN [query |-> [query EXCEPT ![q] = [NoQueryRec EXCEPT !.st = "settled", !.owner = t,
                                                          !.top = query[q].top,
                                                          !.cancelled = query[q].cancelled,
                                                          !.outcome = outcome]],
        task |-> IF query[q].top
                 THEN [task EXCEPT ![t].pc = "settled", ![t].outcome = outcome]
                 ELSE task,
        tx |-> IF ~query[q].top /\ tx[t].st = "bodyAwait" /\ tx[t].awaiting = q
               THEN [tx EXCEPT ![t].st = "bodyRun", ![t].awaiting = NoQuery]
               ELSE tx]

\* The mutant forgets the cancelled test after the execution phase.
prepareAndRunQueryStepNoTestAfterExec(phase, res, cancelled) ==
    IF cancelled /\ ~(phase = "exec" /\ res = "resolved")
    THEN "awaitCancelledThenThrowQueryCancelledError"
    ELSE IF res = "rejected" THEN "throw"
    ELSE IF phase = "prep" THEN "runExtendedQuery"
    ELSE "return"

\* prepareAndRunQuery's async body after the phase it awaited has settled.
prepareAndRunQueryStep(phase, res, cancelled) ==
    IF cancelled THEN "awaitCancelledThenThrowQueryCancelledError"
    ELSE IF res = "rejected" THEN "throw"
    ELSE IF phase = "prep" THEN "runExtendedQuery"
    ELSE "return"

\* prepareAndRunQuery(conn, query, options) up to its first await: prepareQuery
\* registers the preparation handler and writes Parse + Describe + Sync.
prepareAndRunQuery(q, t, isTop) ==
    /\ query' = [query EXCEPT ![q] = [NoQueryRec EXCEPT !.st = "prep", !.owner = t,
                                                        !.top = isTop,
                                                        !.h = handleQueryPreparation]]
    /\ LET w == Written("prep", toServer, unacked)
       IN toServer' = w.toServer /\ unacked' = w.unacked

\* The callback borrowConnection calls with the connection.
StartCallback(t, k) ==
    IF k = "run"
    THEN /\ HasFreshQuery
         /\ prepareAndRunQuery(FreshQuery, t, TRUE)
         /\ UNCHANGED <<tx, toClient, srv, cancelInFlight>>
    ELSE \* transaction: await runSimpleQuery(conn, 'begin')
         /\ tx' = [tx EXCEPT ![t] = [NoTx EXCEPT !.st = "begin", !.log = <<"begin">>,
                                                 !.h = handleSimpleQueryExecution]]
         /\ LET w == Written("begin", toServer, unacked)
            IN toServer' = w.toServer /\ unacked' = w.unacked
         /\ UNCHANGED <<query, toClient, srv, cancelInFlight>>

\* pool.run(query) or pool.transaction(callback)
Borrow(t, k) ==
    /\ Quiet
    /\ t \in ConnTasks
    /\ k = "tx" => Cardinality({u \in Tasks : task[u].kind = "tx"}) < MaxTransactions
    /\ borrowConnection(t, k)
    /\ IF task'[t].pc = "leased" THEN StartCallback(t, k) ELSE UNCHANGED wireVars

WaiterRuns(t) ==
    /\ RunWaiter(t)
    /\ IF task'[t].pc = "leased" THEN StartCallback(t, task[t].kind) ELSE UNCHANGED wireVars

\* cancel() on a query future (by its caller, or by the queryTimeout timer):
\* cancelled = true; cancelledPromise = cancelCurrentQuery(conn, options). Every call
\* opens a cancel connection of its own; the connection of an earlier call that has
\* not written yet is no longer awaited and its CancelRequest is on its way.
Cancel(q) ==
    /\ Quiet
    /\ query[q].st \in {"prep", "exec"}
    /\ IF query[q].cancelled
       THEN query[q].cancels < MaxCancelCalls
       ELSE Cardinality({r \in QIds : query[r].cancelled}) < MaxCancels
    /\ query' = [query EXCEPT ![q].cancelled = TRUE, ![q].creq = "pending",
                              ![q].cancels = @ + 1]
    /\ cancelInFlight' = IF query[q].creq = "pending" THEN cancelInFlight + 1
                         ELSE cancelInFlight
    /\ UNCHANGED <<poolVars, task, tx, toServer, toClient, srv, unacked>>

\* cancelCurrentQuery: the cancel connection connected and cancelKey was written
CancelRequestWritten(q) ==
    /\ Quiet
    /\ query[q].creq = "pending"
    /\ query' = [query EXCEPT ![q].creq = "written"]
    /\ cancelInFlight' = cancelInFlight + 1
    /\ UNCHANGED <<poolVars, task, tx, toServer, toClient, srv, unacked>>

\* cancelCurrentQuery: the cancel connection failed
CancelConnectionFails(q) ==
    /\ Quiet
    /\ query[q].creq = "pending"
    /\ query' = [query EXCEPT ![q].creq = "failed"]
    /\ UNCHANGED <<poolVars, task, tx, toServer, toClient, srv, cancelInFlight, unacked>>

\* The async body of prepareAndRunQuery resumes after prepareQuery / runExtendedQuery.
QueryContinues(q) ==
    /\ query[q].st \in PhaseEnded
    /\ LET phase == IF query[q].st \in {"prepResolved", "prepRejected"} THEN "prep" ELSE "exec"
           res == IF query[q].st \in {"prepResolved", "execResolved"} THEN "resolved" ELSE "rejected"
           step == prepareAndRunQueryStep(phase, res, query[q].cancelled)
       IN CASE step = "awaitCancelledThenThrowQueryCancelledError" ->
                 /\ query' = [query EXCEPT ![q].st = "awaitCancel"]
                 /\ UNCHANGED <<task, tx, toServer, unacked>>
            [] step = "runExtendedQuery" ->
                 \* no entry in conn.preparedQueries: Parse + Bind + Execute + Sync
                 /\ query' = [query EXCEPT ![q].st = "exec", ![q].h = handleQueryExecution(FALSE)]
                 /\ LET w == Written("exec", toServer, unacked)
                    IN toServer' = w.toServer /\ unacked' = w.unacked
                 /\ UNCHANGED <<task, tx>>
            [] step = "throw" ->
                 LET r == QuerySettled(q, query[q].err)
                 IN /\ query' = r.query /\ task' = r.task /\ tx' = r.tx
                    /\ UNCHANGED <<toServer, unacked>>
            [] step = "return" ->
                 LET r == QuerySettled(q, "ok")
                 IN /\ query' = r.query /\ task' = r.task /\ tx' = r.tx
                    /\ UNCHANGED <<toServer, unacked>>
    /\ UNCHANGED <<poolVars, toClient, srv, cancelInFlight>>

\* try { await cancelledPromise } catch {}; throw new QueryCancelledError(..)
QueryCancelledThrown(q) ==
    /\ query[q].st = "awaitCancel"
    /\ query[q].creq \in {"written", "failed"}
    /\ LET r == QuerySettled(q, "QueryCancelledError")
       IN query' = r.query /\ task' = r.task /\ tx' = r.tx
    /\ UNCHANGED <<poolVars, toServer, toClient, srv, cancelInFlight, unacked>>

\* runSimpleQuery(conn, text) inside the transaction callback
TxSimpleQuery(t, text, st, txr) ==
    /\ tx' = [txr EXCEPT ![t].st = st, ![t].h = handleSimpleQueryExecution,
                         ![t].log = Append(@, text)]
    /\ LET w == Written(text, toServer, unacked)
       IN toServer' = w.toServer /\ unacked' = w.unacked

\* The transaction callback resumes after begin, commit or rollback.
TxContinues(t) ==
    /\ tx[t].st \in TxPhaseEnded
    /\ CASE tx[t].st = "beginResolved" ->
              \* return callback({ run }) ..: the body starts
              /\ tx' = [tx EXCEPT ![t].st = "bodyRun", ![t].beginOk = TRUE]
              /\ UNCHANGED <<task, toServer, unacked>>
         [] tx[t].st = "beginRejected" ->
              /\ tx' = [tx EXCEPT ![t].st = "done"]
              /\ task' = [task EXCEPT ![t].pc = "settled", ![t].outcome = "BeginFailure"]
              /\ UNCHANGED <<toServer, unacked>>
         [] tx[t].st = "commitResolved" ->
              /\ tx' = [tx EXCEPT ![t].st = "done"]
              /\ task' = [task EXCEPT ![t].pc = "settled", ![t].outcome = "ok"]
              /\ UNCHANGED <<toServer, unacked>>
         [] tx[t].st = "commitRejected" ->
              \* .catch(async err => { await runSimpleQuery(conn, 'rollback'); throw err })
              /\ TxSimpleQuery(t, "rollback", "rollback", [tx EXCEPT ![t].err = "CommitFailure"])
              /\ UNCHANGED task
         [] tx[t].st = "rollbackResolved" ->
              /\ tx' = [tx EXCEPT ![t].st = "done"]
              /\ task' = [task EXCEPT ![t].pc = "settled", ![t].outcome = tx[t].err]
              /\ UNCHANGED <<toServer, unacked>>
         [] tx[t].st = "rollbackRejected" ->
              /\ tx' = [tx EXCEPT ![t].st = "done"]
              /\ task' = [task EXCEPT ![t].pc = "settled", ![t].outcome = "RollbackFailure"]
              /\ UNCHANGED <<toServer, unacked>>
    /\ UNCHANGED <<poolVars, query, toClient, srv, cancelInFlight>>

\* The body issues a statement through the transaction client: tx.run(query).
BodyRuns(t, awaited) ==
    /\ tx[t].st = "bodyRun"
    /\ tx[t].stmts < MaxBodyStatements
    /\ HasFreshQuery
    /\ prepareAndRunQuery(FreshQuery, t, FALSE)
    /\ tx' = [tx EXCEPT ![t].stmts = @ + 1,
                        ![t].st = IF awaited THEN "bodyAwait" ELSE "bodyRun",
                        ![t].awaiting = IF awaited THEN FreshQuery ELSE NoQuery,
                        ![t].sync = IF awaited THEN FALSE ELSE @,
                        ![t].floating = IF awaited THEN @ ELSE TRUE]
    /\ UNCHANGED <<poolVars, task, toClient, srv, cancelInFlight>>

\* The body's promise is fulfilled: .then(() => runSimpleQuery(conn, 'commit'))
BodyCompletes(t) ==
    /\ tx[t].st = "bodyRun"
    /\ TxSimpleQuery(t, "commit", "commit", [tx EXCEPT ![t].bodyResult = "completed"])
    /\ UNCHANGED <<poolVars, task, query, toClient, srv, cancelInFlight>>

\* The body's promise is rejected with X: the catch callback sends rollback.
BodyRejects(t) ==
    /\ tx[t].st = "bodyRun"
    /\ TxSimpleQuery(t, "rollback", "rollback",
                     [tx EXCEPT ![t].bodyResult = "failed", ![t].err = "X"])
    /\ UNCHANGED <<poolVars, task, query, toClient, srv, cancelInFlight>>

\* The body throws X before it returns a promise: callback({ run }) throws inside
\* the async callback of transaction, whose promise is rejected with X.
BodyThrows(t) ==
    /\ tx[t].st = "bodyRun"
    /\ tx[t].sync
    /\ tx' = [tx EXCEPT ![t].st = "done", ![t].bodyResult = "failed", ![t].err = "X"]
    /\ task' = [task EXCEPT ![t].pc = "settled", ![t].outcome = "X"]
    /\ UNCHANGED <<poolVars, query, toServer, toClient, srv, cancelInFlight, unacked>>

\* ------------------------------------------------------------ the server
\* What the backend answers to a batch. A cancel that reaches the backend while it
\* runs the batch may end it with ErrorResponse 57014.
Responses(batch, cancelled) ==
    (CASE batch = "prep" ->
            {<<ParseComplete, ParameterDescription, RowDescription, ReadyForQuery>>,
             <<ParseComplete, ParameterDescription, NoData, ReadyForQuery>>,
             <<ErrorResponse, ReadyForQuery>>}
       [] batch = "exec" ->
            {<<ParseComplete, BindComplete, CommandComplete, ReadyForQuery>>,
             <<ParseComplete, BindComplete, ErrorResponse, ReadyForQuery>>}
       [] batch = "commit" ->
            {<<CommandComplete, ReadyForQuery>>, <<ErrorResponse, ReadyForQuery>>}
       [] OTHER -> {<<CommandComplete, ReadyForQuery>>})
    \cup (IF ~cancelled THEN {}
          ELSE IF batch = "exec"
          THEN {<<ParseComplete, BindComplete, ErrorResponseCancelled, ReadyForQuery>>}
          ELSE {<<ErrorResponseCancelled, ReadyForQuery>>})

\* The backend runs the oldest batch it was sent and answers it.
ServerResponds ==
    /\ Quiet
    /\ toServer # <<>>
    /\ \E r \in Responses(Head(toServer), srv.cancelled) : toClient' = toClient \o r
    /\ toServer' = Tail(toServer)
    /\ srv' = IdleServer
    /\ UNCHANGED <<poolVars, task, query, tx, cancelInFlight, unacked>>

\* The CancelRequest reaches the server: it interrupts the batch the backend is
\* running at that moment, and is dropped if the backend is idle.
ServerHandlesCancel ==
    /\ Quiet
    /\ cancelInFlight > 0
    /\ cancelInFlight' = cancelInFlight - 1
    /\ srv' = [srv EXCEPT !.cancelled = (toServer # <<>>)]
    /\ UNCHANGED <<poolVars, task, query, tx, toServer, toClient, unacked>>

\* ---------------------------------------------------- conn.on('data')
CountOf(m, data) == Cardinality({i \in 1..Len(data) : data[i] = m})

\* One 'data' event carries the next n frames to every handler registered on the
\* connection; with none registered the bytes are dropped.
Deliver(n) ==
    /\ Quiet
    /\ n \in 1..Len(toClient)
    /\ LET data == SubSeq(toClient, 1, n)
       IN /\ toClient' = SubSeq(toClient, n + 1, Len(toClient))
          /\ unacked' = unacked - CountOf(ReadyForQuery, data)
          /\ query' = [q \in QIds |->
                IF query[q].h.kind = "none" THEN query[q]
                ELSE LET r == onData(query[q].h, data)
                     IN IF r.res = "pending" THEN [query[q] EXCEPT !.h = r.h]
                        ELSE IF r.res = "resolved"
                        THEN [query[q] EXCEPT !.h = r.h, !.st = query[q].st \o "Resolved"]
                        ELSE [query[q] EXCEPT !.h = r.h, !.st = query[q].st \o "Rejected",
                                              !.err = r.err]]
          /\ tx' = [t \in Tasks |->
                IF tx[t].h.kind = "none" THEN tx[t]
                ELSE LET r == onData(tx[t].h, data)
                     IN IF r.res = "pending" THEN [tx[t] EXCEPT !.h = r.h]
                        ELSE IF r.res = "resolved"
                        THEN [tx[t] EXCEPT !.h = r.h, !.st = tx[t].st \o "Resolved"]
                        ELSE [tx[t] EXCEPT !.h = r.h, !.st = tx[t].st \o "Rejected"]]
    /\ UNCHANGED <<poolVars, task, toServer, srv, cancelInFlight>>

\* A pool whose one connection is open and available.
ConnInit ==
    /\ minConnections = 1
    /\ maxConnections = 1
    /\ openingConnections = 0
    /\ sock = [s \in Socks |-> IF s = 1 THEN "alive" ELSE "unused"]
    /\ openConnections = <<1>>
    /\ availableConnections = <<1>>
    /\ waitingForConnection = <<>>
    /\ retryTimers = 0
    /\ task = [t \in Tasks |-> IdleTask]
    /\ WireInit
    /\ arg = NoCall
    /\ ret = NoCall

ConnNext ==
    \/ \E t \in Tasks, k \in {"run", "tx"} : Borrow(t, k) /\ UNCHANGED callVars
    \/ \E t \in Tasks : WaiterRuns(t) /\ UNCHANGED callVars
    \/ \E t \in Tasks : CancelWaiting(t) /\ UNCHANGED <<wireVars, callVars>>
    \/ \E t \in Tasks : Finally(t) /\ UNCHANGED <<wireVars, callVars>>
    \/ \E q \in QIds : Cancel(q) /\ UNCHANGED callVars
    \/ \E q \in QIds : CancelRequestWritten(q) /\ UNCHANGED callVars
    \/ \E q \in QIds : CancelConnectionFails(q) /\ UNCHANGED callVars
    \/ \E q \in QIds : QueryContinues(q) /\ UNCHANGED callVars
    \/ \E q \in QIds : QueryCancelledThrown(q) /\ UNCHANGED callVars
    \/ \E t \in Tasks : TxContinues(t) /\ UNCHANGED callVars
    \/ \E t \in Tasks, a \in BOOLEAN : BodyRuns(t, a) /\ UNCHANGED callVars
    \/ \E t \in Tasks : BodyCompletes(t) /\ UNCHANGED callVars
    \/ \E t \in Tasks : BodyRejects(t) /\ UNCHANGED callVars
    \/ \E t \in Tasks : BodyThrows(t) /\ UNCHANGED callVars
    \/ ServerResponds /\ UNCHANGED callVars
    \/ ServerHandlesCancel /\ UNCHANGED callVars
    \/ \E n \in 1..4 : Deliver(n) /\ UNCHANGED callVars

ConnSpec == ConnInit /\ [][ConnNext]_vars

\* ------------------------------------------------------------- claims
\* A borrower whose callback was handed a connection and has not lent it back.
HoldsLease(t) == task[t].pc \in {"leased", "settled"}

\* C1: a connection handed to a callback is in no other borrower's hands and not
\* in availableConnections until lendConnection is called for that lease.
C1_ExclusiveLease ==
    \A t \in Tasks : HoldsLease(t) =>
        /\ task[t].conn \notin Range(availableConnections)
        /\ \A u \in Tasks \ {t} :
              task[u].pc \in {"handed", "leased", "settled"} => task[u].conn # task[t].conn

\* A connection that one lease returned is leased again while a third borrower waits.
C1_Witness ==
    \E t, u, w \in Tasks :
        /\ task[t].pc = "returned" /\ task[u].pc = "leased"
        /\ task[u].conn = task[t].conn
        /\ task[w].pc = "waiting"

\* C2: lendConnection is called for a lease exactly once, after the callback's
\* result future has settled: never while it is pending, never twice.
C2_LendOncePerLease ==
    \A t \in Tasks :
        /\ task[t].lends <= 1
        /\ task[t].pc \in {"handed", "leased", "settled"} => task[t].lends = 0
        /\ task[t].pc = "returned" => task[t].lends = 1

\* Two leases have ended, each with its one lendConnection.
C2_Witness ==
    \E t, u \in Tasks : t # u /\ task[t].pc = "returned" /\ task[u].pc = "returned"
                        /\ task[t].lends = 1 /\ task[u].lends = 1

\* C3: openConnections.length + openingConnections <= maxConnections in every
\* reachable state.
C3_AtMostMaxConnections ==
    Len(openConnections) + openingConnections <= maxConnections

\* C4: a connection is in availableConnections iff no lease holds it and its
\* socket is alive (a socket counts as alive until its 'close' event).
C4_AvailableIffFreeAndAlive ==
    \A c \in Socks :
        (c \in Range(availableConnections))
            <=> (/\ sock[c] \in {"alive", "destroyed"}
                 /\ \A t \in Tasks : task[t].pc \in {"handed", "leased", "settled"}
                                        => task[t].conn # c)

\* ---- ConnSpec claims
Registered == {q \in QIds : query[q].h.kind # "none"}
TxRegistered == {t \in Tasks : tx[t].h.kind # "none"}
Sent(t, text) == Cardinality({i \in 1..Len(tx[t].log) : tx[t].log[i] = text})

\* C5: no batch of a new phase is written while the ReadyForQuery of a phase that
\* has ended is still to come: the batches without their ReadyForQuery are those of
\* the phases in progress.
C5_NoPhaseBeforeReadyForQuery ==
    (Registered # {} \/ TxRegistered # {}) =>
        unacked <= Cardinality(Registered) + Cardinality(TxRegistered)

\* C6: once a transaction whose begin succeeded has settled and its connection is
\* lent again, exactly one of commit and rollback was sent: commit if the body
\* completed, rollback if it failed.
C6_ExactlyOneCommitOrRollback ==
    \A t \in Tasks :
        (task[t].kind = "tx" /\ task[t].pc = "returned" /\ tx[t].beginOk) =>
            /\ Sent(t, "commit") + Sent(t, "rollback") = 1
            /\ tx[t].bodyResult = "completed" => Sent(t, "commit") = 1
            /\ tx[t].bodyResult = "failed" => Sent(t, "rollback") = 1

\* C7: a transaction whose body failed with X rejects with X (stated for the bodies
\* that await every statement they issue).
C7_RejectsWithBodyError ==
    \A t \in Tasks :
        (task[t].kind = "tx" /\ task[t].pc \in {"settled", "returned"}
            /\ ~tx[t].floating /\ tx[t].bodyResult = "failed") => task[t].outcome = "X"

\* C8: while a transaction holds its lease, at most one phase is in progress on the
\* connection and every phase in progress belongs to that transaction.
C8_OnePhaseAtATimeInTransaction ==
    \A t \in Tasks :
        (task[t].kind = "tx" /\ task[t].pc = "leased") =>
            /\ Cardinality(Registered) + Cardinality(TxRegistered) <= 1
            /\ \A q \in Registered : query[q].owner = t
            /\ \A u \in TxRegistered : u = t

cancelCalled(t) ==
    \/ task[t].cancelled
    \/ \E q \in QIds : query[q].top /\ query[q].owner = t /\ query[q].cancelled

\* C9: a run() future on which cancel() was called before it settled is rejected
\* with QueryCancelledError, whether it waited for a connection, was preparing or
\* was executing, and whatever the server answered.
C9_CancelledRejectsWithQueryCancelledError ==
    /\ \A t \in Tasks :
        (task[t].kind = "run" /\ task[t].pc \in {"settled", "returned", "cancelled"}
            /\ cancelCalled(t)) => task[t].outcome = "QueryCancelledError"
    /\ \A q \in QIds :
        (query[q].st = "settled" /\ query[q].cancelled) =>
            query[q].outcome = "QueryCancelledError"

\* a query cancelled on its connection whose lease has ended, and a later query
\* that succeeded on the same connection
C9_Witness ==
    \E t \in Tasks, q \in QIds :
        /\ task[t].kind = "run" /\ task[t].pc = "returned"
        /\ query[q].top /\ query[q].owner = t /\ query[q].cancelled
        /\ task[t].outcome = "QueryCancelledError"
        /\ \E u \in Tasks : u # t /\ task[u].pc = "returned" /\ task[u].outcome = "ok"

\* C10: a run() query that was never cancelled is not failed by a cancel: it does
\* not end with the server's error 57014 (query_canceled).
C10_UncancelledNeverCancelled ==
    \A q \in QIds :
        (query[q].st = "settled" /\ query[q].top /\ ~query[q].cancelled) =>
            query[q].outcome # "PostgresError57014"

\* ---- waiters
Holds(t, c) == task[t].conn = c /\ task[t].pc \in {"handed", "leased", "settled"}

\* C11: a run() cancelled while it waits never has its callback called: no query of
\* its own is registered or written; and once it has been given a connection, that
\* connection is available again or with another borrower.
C11_CancelledWaiterSendsNothingAndLendsBack ==
    \A t \in Tasks :
        task[t].cancelled =>
            /\ task[t].pc \in {"waiting", "handed", "cancelled"}
            /\ tx[t].st = "none"
            /\ \A q \in QIds : query[q].owner # t
            /\ task[t].pc = "cancelled" =>
                  /\ task[t].lends = 1
                  /\ \/ task[t].conn \in Range(availableConnections)
                     \/ \E u \in Tasks : u # t /\ Holds(u, task[t].conn)

\* a waiter cancelled in the queue was given the connection and lent it on
C11_Witness ==
    \E t \in Tasks :
        /\ task[t].cancelled /\ task[t].pc = "cancelled"
        /\ task[t].conn \in Range(availableConnections)
        /\ \E u \in Tasks : u # t /\ task[u].pc = "returned" /\ task[u].conn = task[t].conn

\* C12: a waiter on which cancel() was called is no longer in waitingForConnection.
C12_CancelledWaiterLeavesQueue ==
    \A t \in Tasks : task[t].cancelled => t \notin Range(waitingForConnection)

\* C13: a connection that is lent goes to the waiter at the head of the queue, the
\* one enqueued first, and is pushed onto availableConnections only when nobody waits.
C13_WaitersServedFifo ==
    [][ /\ \A t \in Tasks :
             (task[t].pc = "waiting" /\ task'[t].pc = "handed") =>
                 /\ waitingForConnection # <<>>
                 /\ t = Head(waitingForConnection)
                 /\ waitingForConnection' = Tail(waitingForConnection)
        /\ Len(availableConnections') > Len(availableConnections) =>
               waitingForConnection = <<>>
      ]_vars

\* the first of two waiters has been given a connection, the second still waits
C13_Witness ==
    \E t, u \in Tasks :
        /\ t < u
        /\ task[t].pc = "handed"
        /\ task[u].pc = "waiting" /\ u \in Range(waitingForConnection)

\* ---- destroy, minimum, idle timeout
\* C14: no future is left waiting for a connection without its resolver in the
\* queue: destroy() settles the futures of the waiters it removes.
C14_DestroyRejectsWaiters ==
    \A t \in Tasks : task[t].pc = "waiting" => t \in Range(waitingForConnection)

\* C15: after destroy() the counter of attempts and the arrays of connections are 0
\* and stay 0.
C15_DestroyedPoolStaysEmpty ==
    maxConnections = 0 =>
        /\ openingConnections = 0
        /\ Len(openConnections) = 0
        /\ Len(availableConnections) = 0

\* C16: while the pool is below its minimum, the pool has something under way that
\* brings it back: an attempt in flight or a retry timer.
C16_BelowMinimumIsBeingRestored ==
    (maxConnections > 0 /\ Len(openConnections) + openingConnections < minConnections) =>
        retryTimers > 0

\* C17: a step that destroys a connection for idleness leaves at least minConnections
\* open connections that are not being destroyed.
C17_IdleReapingKeepsMinimum ==
    [][ \A s \in Socks :
          (sock[s] = "alive" /\ sock'[s] = "destroyed" /\ minConnections' > 0) =>
              Cardinality({c \in Range(openConnections) : sock'[c] = "alive"}) >= minConnections
      ]_vars

\* C18: in a pool built with minConnections 0 and maxConnections 2, the connection
\* of a query that has completed, idle in the pool, passes the test of the idle
\* timeout handler and is closed.
C18_IdleConnectionClosedWithMinimumZero ==
    (minConnections = OrDefault(0, DefaultMinConnections) /\ maxConnections = 2) =>
        \A t \in Tasks :
            (task[t].pc = "returned" /\ task[t].conn \in Range(availableConnections)
                /\ sock[task[t].conn] = "alive") =>
                    Len(openConnections) > minConnections

\* ---- failed phases
\* C19: after a query that failed with an ErrorResponse, the preparation of the next
\* run() on the connection is not failed by the protocol driver: the server of the
\* model answers every batch in protocol order, so a protocol failure can only come
\* from messages of another phase.
C19_ErrorResponseDoesNotPoison ==
    \A q \in QIds :
        (/\ query[q].top
         /\ query[q].st = "prepRejected"
         /\ \E r \in QIds : /\ r # q
                            /\ query[r].st = "settled"
                            /\ query[r].outcome = "PostgresError") =>
            query[q].err # "ProtocolError"

\* C20: the connection of a lease whose query failed with a protocol error is
\* destroyed: it is not available and no borrower is given it.
C20_ProtocolErrorDestroysConnection ==
    \A t \in Tasks :
        (task[t].pc = "returned" /\ task[t].outcome = "ProtocolError") =>
            /\ sock[task[t].conn] \in {"destroyed", "closed"}
            /\ task[t].conn \notin Range(availableConnections)
            /\ \A u \in Tasks : ~Holds(u, task[t].conn)

\* ------------------------------------------------ the value a query rejects with
\* new PostgresErrorOrNotice(data): the typed error built from an ErrorResponse,
\* carrying the SQLSTATE of the message.
PostgresErrorOrNotice(m) ==
    [name |-> "PostgresError", code |-> IF m = ErrorResponseCancelled THEN "57014" ELSE "42601"]

\* handleBackendMessage's onFailure: the phase's promise is rejected with an object
\* that holds the error next to the notices and the unexpected messages.
onFailure(error) == [error |-> error, notices |-> <<>>, unexpected |-> <<>>]

\* The value the future of run() is rejected with. prepareQuery and runExtendedQuery
\* chain only .then(..) on the phase's promise and prepareAndRunQuery rethrows what
\* it caught, so a phase's rejection value reaches the caller as it is; a
\* QueryCancelledError is thrown by prepareAndRunQuery itself.
rejectionOfRun(outcome) ==
    CASE outcome = "PostgresError" -> onFailure(PostgresErrorOrNotice(ErrorResponse))
      [] outcome = "PostgresError57014" -> onFailure(PostgresErrorOrNotice(ErrorResponseCancelled))
      [] outcome = "ProtocolError" -> onFailure([name |-> "Error"])
      [] outcome = "QueryCancelledError" -> [name |-> "QueryCancelledError"]

\* C21: a run() that was not cancelled and whose statement the server answered with
\* an ErrorResponse rejects with the PostgresError itself: the rejection value has
\* the SQLSTATE in its code field.
C21_RejectsWithPostgresErrorItself ==
    \A q \in QIds :
        (/\ query[q].top
         /\ query[q].st = "settled"
         /\ ~query[q].cancelled
         /\ query[q].outcome \in {"PostgresError", "PostgresError57014"})
        => LET v == rejectionOfRun(query[q].outcome)
           IN /\ "code" \in DOMAIN v
              /\ v.name = "PostgresError"
              /\ v.code \in {"42601", "57014"}

\* C22: a transaction whose body issues one statement, calls cancel() on its future
\* and awaits it: the statement fails with QueryCancelledError, and when the body
\* fails with that error the transaction sends rollback and no commit, and
\* transaction() rejects with the error of the body, the QueryCancelledError.
C22_CancelInTransactionRejectsWithQueryCancelledError ==
    \A t \in Tasks, q \in QIds :
        (/\ task[t].kind = "tx" /\ task[t].pc \in {"settled", "returned"}
         /\ tx[t].stmts = 1 /\ ~tx[t].floating
         /\ query[q].owner = t /\ ~query[q].top
         /\ query[q].st = "settled" /\ query[q].cancelled
         /\ tx[t].bodyResult = "failed")
        => /\ query[q].outcome = "QueryCancelledError"
           /\ Sent(t, "rollback") = 1 /\ Sent(t, "commit") = 0
           /\ task[t].outcome = "X"

\* C23: cancel() is idempotent: however often it is called on a query future, at
\* most one cancel connection is opened, and so at most one CancelRequest is sent,
\* for that future.
C23_AtMostOneCancelRequestPerFuture ==
    \A q \in QIds : query[q].cancels <= 1

\* C24: every timer is cleared when what it guards has settled: once a connection
\* attempt has settled, by success or by failure, its connectTimeout timer is not
\* set any more and cannot fire.
C24_ConnectTimerClearedWhenAttemptSettled ==
    \A s \in Socks : sock[s] # "closedTimerPending"

\* ======================================================= functions by themselves
\* No pool is running while a function is studied by itself.
NotRunning ==
    /\ minConnections = 0
    /\ maxConnections = 0
    /\ openingConnections = 0
    /\ sock = [s \in Socks |-> "unused"]
    /\ openConnections = <<>>
    /\ availableConnections = <<>>
    /\ waitingForConnection = <<>>
    /\ retryTimers = 0
    /\ task = [t \in Tasks |-> IdleTask]
    /\ WireInit

\* A call that returns at once: its result replaces NoCall.
Returns(fn, value) ==
    /\ arg.fn = fn
    /\ ret = NoCall
    /\ ret' = value
    /\ UNCHANGED <<poolVars, task, wireVars, arg>>

\* ------------------------------------------------------------ sql`..`
MaxParams == 3

\* Parameter values: two numbers, a string, and the number NaN.
ColumnValues == {"5", "7", "x", "NaN"}
\* The texts between the parameters of a template.
SqlTexts == {"", " = "}

\* a === b on parameter values: NaN is not identical to anything, itself included.
StrictEquals(a, b) == a = b /\ a # "NaN"

\* The mutant finds no parameter in uniqueParams.
indexInUniqueParamsNever(val, uniqueParams) == 0

\* The inner loop of sql: the first j with val === uniqueParams[j], 0 without one.
indexInUniqueParams(val, uniqueParams) ==
    LET hits == {j \in 1..Len(uniqueParams) : StrictEquals(val, uniqueParams[j])}
    IN IF hits = {} THEN 0 ELSE CHOOSE j \in hits : \A k \in hits : j <= k

\* The outer loop of sql from parameter i on.
RECURSIVE sqlArgIndices(_, _, _, _)
sqlArgIndices(params, i, uniqueParams, argIndices) ==
    IF i > Len(params)
    THEN [uniqueParams |-> uniqueParams, argIndices |-> argIndices]
    ELSE LET j == indexInUniqueParams(params[i], uniqueParams)
         IN IF j > 0
            THEN sqlArgIndices(params, i + 1, uniqueParams, Append(argIndices, j))
            ELSE sqlArgIndices(params, i + 1, Append(uniqueParams, params[i]),
                               Append(argIndices, Len(uniqueParams) + 1))

\* sql += sqlParts[i] + '$' + argIndices[i], then the last part
RECURSIVE sqlText(_, _, _)
sqlText(sqlParts, argIndices, i) ==
    IF i > Len(argIndices)
    THEN sqlParts[i]
    ELSE sqlParts[i] \o "$" \o ToString(argIndices[i]) \o sqlText(sqlParts, argIndices, i + 1)

\* The digest of a text, a function of the text.
md5(text) == <<"md5", text>>

sql(sqlParts, params) ==
    LET r == sqlArgIndices(params, 1, <<>>, <<>>)
        text == sqlText(sqlParts, r.argIndices, 1)
    IN [sql |-> text, params |-> r.uniqueParams, id |-> md5(text)]

SqlInit ==
    /\ NotRunning
    /\ \E n \in 0..MaxParams :
          \E params \in [1..n -> ColumnValues], sqlParts \in [1..(n + 1) -> SqlTexts] :
              arg = [fn |-> "sql", sqlParts |-> sqlParts, params |-> params]
    /\ ret = NoCall

SqlNext == Returns("sql", sql(arg.sqlParts, arg.params))

SqlSpec == SqlInit /\ [][SqlNext]_vars

\* The positions of params whose value is not === to the value at an earlier one.
FirstOccurrences(params) ==
    {i \in 1..Len(params) : \A j \in 1..(i - 1) : ~StrictEquals(params[i], params[j])}

\* C25, as the code has it: there are placeholder numbers ks with which the rendered
\* text is sqlParts[1] $ks[1] sqlParts[2] .. ; uniqueParams[ks[i]] is the value of
\* params[i]; two positions whose values are === get the same placeholder;
\* uniqueParams holds the values of the first occurrences, in their order, where a
\* value that is not === to itself (NaN) is a first occurrence every time; and the
\* id is the digest of the text.
C25_DeduplicatesIdenticalParameters ==
    (arg.fn = "sql" /\ ret # NoCall) =>
        LET n == Len(arg.params)
            u == ret.params
        IN /\ \E ks \in [1..n -> 1..MaxParams] :
                /\ ret.sql = sqlText(arg.sqlParts, ks, 1)
                /\ \A i \in 1..n : ks[i] <= Len(u) /\ u[ks[i]] = arg.params[i]
                /\ \A i, j \in 1..n :
                      StrictEquals(arg.params[i], arg.params[j]) => ks[i] = ks[j]
                /\ \A i, j \in FirstOccurrences(arg.params) : i < j => ks[i] < ks[j]
           /\ Len(u) = Cardinality(FirstOccurrences(arg.params))
           /\ ret.id = md5(ret.sql)

\* one value at two positions, another value between them
C25_Witness ==
    /\ arg.fn = "sql" /\ ret # NoCall
    /\ arg.params = <<"5", "7", "5">>
    /\ ret.params = <<"5", "7">>
    /\ ret.sql = sqlText(arg.sqlParts, <<1, 2, 1>>, 1)

\* C25, as stated: for every parameter list, every placeholder points at a value of
\* uniqueParams that is === to the parameter, and uniqueParams lists each value once.
C25_AsStated ==
    (arg.fn = "sql" /\ ret # NoCall) =>
        LET n == Len(arg.params)
            u == ret.params
        IN /\ \E ks \in [1..n -> 1..MaxParams] :
                /\ ret.sql = sqlText(arg.sqlParts, ks, 1)
                /\ \A i \in 1..n : ks[i] <= Len(u) /\ StrictEquals(u[ks[i]], arg.params[i])
           /\ \A i, j \in 1..Len(u) : u[i] = u[j] => i = j

\* ------------------------------------------- writeTimestamp / readTimestamp
\* The code splits the microseconds into two words of 2^32. TLC computes with 32-bit
\* integers, so the model keeps the arithmetic of the code on two words of 2^16, and
\* the epoch without its last three digits (946684800000 in the code).
Word == 65536
postgresEpoch == 946684800
MaxMillis == 100

\* value >> n starts with ToInt32(value): the fraction of a quotient is cut off,
\* towards zero.
TruncatedQuotient(a, b) == IF a >= 0 THEN a \div b ELSE -((-a) \div b)

\* writeInt32 and writeUint32 store the low bits of the integer: the word written.
writeInt32(value) == value % Word
writeUint32(value) == value % Word

\* readInt32 shifts the first byte into the sign bit; readUint32 multiplies it.
readInt32(word) == IF word >= Word \div 2 THEN word - Word ELSE word
readUint32(word) == word

\* Math.round(a / b) for b > 0: halves go up.
RoundedQuotient(a, b) == (2 * a + b) \div (2 * b)

writeTimestamp(value) ==
    LET t == (value - postgresEpoch) * 1000
    IN <<writeInt32(TruncatedQuotient(t, Word)), writeUint32(t)>>

readTimestamp(buffer) ==
    LET value == Word * readInt32(buffer[1]) + readUint32(buffer[2])
    IN RoundedQuotient(value, 1000) + postgresEpoch

TimestampInit ==
    /\ NotRunning
    /\ \E d \in (-MaxMillis)..MaxMillis : arg = [fn |-> "timestamp", value |-> postgresEpoch + d]
    /\ ret = NoCall

\* The parameter is written into the Bind message.
WriteTimestamp ==
    /\ arg.fn = "timestamp"
    /\ ret = NoCall
    /\ ret' = [fn |-> "writeTimestamp", buffer |-> writeTimestamp(arg.value)]
    /\ UNCHANGED <<poolVars, task, wireVars, arg>>

\* The same bytes are read as a column value.
ReadTimestamp ==
    /\ ret.fn = "writeTimestamp"
    /\ ret' = [fn |-> "readTimestamp", buffer |-> ret.buffer, value |-> readTimestamp(ret.buffer)]
    /\ UNCHANGED <<poolVars, task, wireVars, arg>>

TimestampNext ==
    \/ WriteTimestamp
    \/ ReadTimestamp

TimestampSpec == TimestampInit /\ [][TimestampNext]_vars

\* The two's-complement encoding of t in two words, the high word first.
TwosComplement(t) == <<(t \div Word) % Word, t % Word>>

\* C26: writeTimestamp followed by readTimestamp returns the instant that was
\* written, for instants before 2000-01-01 as for those after, and the bytes written
\* are the two's-complement big-endian encoding of (ms - epochMs) * 1000.
C26_TimestampRoundTrip ==
    ret.fn = "readTimestamp" =>
        /\ ret.value = arg.value
        /\ ret.buffer = TwosComplement((arg.value - postgresEpoch) * 1000)

\* ------------------------------------------------ writeNumeric / readNumeric
\* A string is the sequence of its characters; a buffer the sequence of its 16-bit
\* words: ndigits, weight, sign, dscale, then the base-10000 digits.
MaxWholeDigits == 5
MaxFractionDigits == 5

NumericSignPlus == 0
NumericSignMinus == 16384
NumericSignNaN == 49152
NumericSignInfinity == 53248
NumericSignNegativeInfinity == 61440

DigitChars == <<"0", "1", "2", "3", "4", "5", "6", "7", "8", "9">>
DigitOf(c) == (CHOOSE i \in 1..10 : DigitChars[i] = c) - 1
NaNString == <<"N", "a", "N">>

Max(a, b) == IF a >= b THEN a ELSE b
Min(a, b) == IF a <= b THEN a ELSE b

\* '0'.repeat(n)
Zeros(n) == [i \in 1..n |-> "0"]

\* parseInt(s, 10) of a string of digits
RECURSIVE parseInt(_)
parseInt(s) == IF s = <<>> THEN 0 ELSE 10 * parseInt(Front(s)) + DigitOf(Last(s))

\* '' + n for n >= 0
RECURSIVE NumberToString(_)
NumberToString(n) ==
    IF n < 10 THEN <<DigitChars[n + 1]>>
    ELSE NumberToString(n \div 10) \o <<DigitChars[(n % 10) + 1]>>

\* The mutant pads nothing.
padStartNothing(s, n) == s

\* s.padStart(n, '0')
padStart(s, n) == Zeros(Max(0, n - Len(s))) \o s

\* s.padEnd(n, '0')
padEnd(s, n) == s \o Zeros(Max(0, n - Len(s)))

\* s.substr(from, n), from counted from 0
substr(s, from, n) == SubSeq(s, from + 1, Min(Len(s), from + n))

writeUint16(value) == value % 65536
writeInt16(value) == value % 65536
readUint16(word) == word
\* value | (value & 32768) * 0x1fffe
readInt16(word) == IF word >= 32768 THEN word - 65536 ELSE word

\* value.split('.'): the part before the first '.', and what follows it ('' if none)
SplitAtDot(value) ==
    LET dots == {i \in 1..Len(value) : value[i] = "."}
        first == IF dots = {} THEN Len(value) + 1 ELSE CHOOSE i \in dots : \A j \in dots : i <= j
        rest == SubSeq(value, first + 1, Len(value))
        dots2 == {i \in 1..Len(rest) : rest[i] = "."}
        second == IF dots2 = {} THEN Len(rest) + 1 ELSE CHOOSE i \in dots2 : \A j \in dots2 : i <= j
    IN [wholePart |-> SubSeq(value, 1, first - 1), decimalPart |-> SubSeq(rest, 1, second - 1)]

\* The words written for the groups of four digits of s
DigitWords(s) == [i \in 1..(Len(s) \div 4) |-> writeUint16(parseInt(substr(s, 4 * (i - 1), 4)))]

writeNumeric(value) ==
    IF value = NaNString
    THEN <<writeUint16(0), writeInt16(0), writeUint16(NumericSignNaN), writeUint16(0)>>
    ELSE LET parts == SplitAtDot(value)
             minus == parts.wholePart # <<>> /\ parts.wholePart[1] = "-"
             sign == IF minus THEN NumericSignMinus ELSE NumericSignPlus
             whole == IF minus THEN Tail(parts.wholePart) ELSE parts.wholePart
             weight == IF Len(whole) > 0 THEN ((Len(whole) + 3) \div 4) - 1 ELSE -1
             wholePart == IF Len(whole) > 0
                          THEN Zeros(4 - (((Len(whole) - 1) % 4) + 1)) \o whole
                          ELSE whole
             decimalsCount == Len(parts.decimalPart)
             decimalPart == IF decimalsCount > 0
                            THEN parts.decimalPart \o Zeros(4 - (((decimalsCount - 1) % 4) + 1))
                            ELSE parts.decimalPart
         IN <<writeUint16((Len(wholePart) + Len(decimalPart)) \div 4), writeInt16(weight),
              writeUint16(sign), writeUint16(decimalsCount)>>
            \o DigitWords(wholePart) \o DigitWords(decimalPart)

\* readNumericDigit(buffer, idx)
readNumericDigit(buffer, idx) == readUint16(buffer[5 + idx])

\* The digits from..to - 1 of the buffer, each padded to four characters
RECURSIVE PaddedDigits(_, _, _)
PaddedDigits(buffer, from, to) ==
    IF from >= to THEN <<>>
    ELSE padStart(NumberToString(readNumericDigit(buffer, from)), 4)
         \o PaddedDigits(buffer, from + 1, to)

readNumeric(buffer) ==
    LET sign == readUint16(buffer[3])
    IN IF sign = NumericSignNaN THEN NaNString
       ELSE IF sign = NumericSignInfinity THEN <<"I", "n", "f", "i", "n", "i", "t", "y">>
       ELSE IF sign = NumericSignNegativeInfinity
       THEN <<"-", "I", "n", "f", "i", "n", "i", "t", "y">>
       ELSE LET digitsInBuffer == readUint16(buffer[1])
                weight == readInt16(buffer[2])
                wholesCount == weight + 1
                wholesInBuffer == Max(0, Min(wholesCount, digitsInBuffer))
                wholes == IF digitsInBuffer = 0 \/ wholesCount <= 0
                          THEN <<"0">>
                          ELSE (IF wholesInBuffer > 0
                                THEN NumberToString(readNumericDigit(buffer, 0)) ELSE <<>>)
                               \o PaddedDigits(buffer, 1, wholesInBuffer)
                               \o Zeros(4 * Max(0, wholesCount - wholesInBuffer))
                decimalsCount == readUint16(buffer[4])
                decimals == Zeros(4 * (IF wholesCount < 0 THEN -wholesCount ELSE 0))
                            \o PaddedDigits(buffer, wholesInBuffer, digitsInBuffer)
                fitted == IF Len(decimals) < decimalsCount THEN padEnd(decimals, decimalsCount)
                          ELSE IF Len(decimals) > decimalsCount
                          THEN substr(decimals, 0, decimalsCount)
                          ELSE decimals
            IN (IF sign = NumericSignMinus THEN <<"-">> ELSE <<>>)
               \o wholes
               \o (IF decimalsCount > 0 THEN <<".">> \o fitted ELSE <<>>)

\* Decimal strings in canonical form over the digits 0 and 7: an optional '-', an
\* integer part without superfluous leading zeros, an optional fractional part.
NumericDigits == {"0", "7"}
WholeParts ==
    {<<"0">>} \cup UNION {{<<"7">> \o s : s \in [1..n -> NumericDigits]} : n \in 0..(MaxWholeDigits - 1)}
FractionParts ==
    {<<>>} \cup UNION {{<<".">> \o s : s \in [1..n -> NumericDigits]} : n \in 1..MaxFractionDigits}
CanonicalNumerics ==
    {m \o w \o f : m \in {<<>>, <<"-">>}, w \in WholeParts, f \in FractionParts}

NumericInit ==
    /\ NotRunning
    /\ \E s \in CanonicalNumerics \cup {NaNString} : arg = [fn |-> "numeric", value |-> s]
    /\ ret = NoCall

\* The parameter is written into the Bind message.
WriteNumeric ==
    /\ arg.fn = "numeric"
    /\ ret = NoCall
    /\ ret' = [fn |-> "writeNumeric", buffer |-> writeNumeric(arg.value)]
    /\ UNCHANGED <<poolVars, task, wireVars, arg>>

\* The same bytes are read as a column value.
ReadNumeric ==
    /\ ret.fn = "writeNumeric"
    /\ ret' = [fn |-> "readNumeric", buffer |-> ret.buffer, value |-> readNumeric(ret.buffer)]
    /\ UNCHANGED <<poolVars, task, wireVars, arg>>

NumericNext ==
    \/ WriteNumeric
    \/ ReadNumeric

NumericSpec == NumericInit /\ [][NumericNext]_vars

\* C27: for every decimal string s in canonical form, and for 'NaN',
\* readNumeric(writeNumeric(s)) = s.
C27_NumericRoundTrip ==
    ret.fn = "readNumeric" => ret.value = arg.value

\* a negative number whose integer part fills two groups and whose fractional part
\* ends in a zero
C27_Witness ==
    /\ ret.fn = "readNumeric"
    /\ arg.value = <<"-", "7", "0", "0", "0", "7", ".", "0", "7", "0">>
    /\ ret.buffer = <<3, 1, NumericSignMinus, 3, 7, 7, 700>>
    /\ ret.value = arg.value

\* ------------------------------------------------- tryOpenConnection's retries
\* One chain of attempts: the tryOpenConnection() of newPool and the calls its
\* timers make. ret.retryDelay is the parameter of the call, ret.delays the delays
\* of the timers set so far, ret.openAtFailure the length of openConnections the
\* catch callback saw.
MaxRetries == 10
InitialRetryDelay == 16
MaxRetryDelay == 4096
DefaultConnectTimeout == 15000

\* options.connectTimeout as given to newPool; 0 stands for an option left out.
ConnectTimeoutOptions == {0, 8, 100, 5000}

\* The mutant doubles without a cap.
nextRetryDelayUncapped(retryDelay, connectTimeout) == retryDelay * 2

\* Math.min(4096, options.connectTimeout, retryDelay * 2)
nextRetryDelay(retryDelay, connectTimeout) ==
    Min(MaxRetryDelay, Min(connectTimeout, retryDelay * 2))

RetryInit ==
    /\ NotRunning
    /\ \E mn \in MinOptions, ct \in ConnectTimeoutOptions :
          /\ arg = [fn |-> "tryOpenConnection",
                    minConnections |-> OrDefault(mn, DefaultMinConnections),
                    connectTimeout |-> OrDefault(ct, DefaultConnectTimeout)]
    /\ ret = [pc |-> "opening", retryDelay |-> InitialRetryDelay, delays |-> <<>>,
              openAtFailure |-> 0, open |-> 0]

\* A connection of another chain, or one opened for a borrower, is pushed to
\* openConnections.
OtherConnectionOpens ==
    /\ arg.fn = "tryOpenConnection"
    /\ ret.pc \in {"opening", "scheduled"}
    /\ ret.open < MaxSockets
    /\ ret' = [ret EXCEPT !.open = @ + 1]
    /\ UNCHANGED <<poolVars, task, wireVars, arg>>

\* openConnection resolved: the chain ends with an open connection.
tryOpenConnectionThen ==
    /\ arg.fn = "tryOpenConnection"
    /\ ret.pc = "opening"
    /\ ret' = [ret EXCEPT !.pc = "open", !.open = @ + 1]
    /\ UNCHANGED <<poolVars, task, wireVars, arg>>

\* openConnection rejected: the catch callback sets the timer of the next call, or
\* does nothing.
tryOpenConnectionCatch ==
    /\ arg.fn = "tryOpenConnection"
    /\ ret.pc = "opening"
    /\ ret' = IF ret.open < arg.minConnections
              THEN [ret EXCEPT !.pc = "scheduled", !.openAtFailure = ret.open,
                               !.delays = Append(@, ret.retryDelay)]
              ELSE [ret EXCEPT !.pc = "gaveUp", !.openAtFailure = ret.open]
    /\ UNCHANGED <<poolVars, task, wireVars, arg>>

\* The timer fires: tryOpenConnection(Math.min(4096, connectTimeout, retryDelay * 2))
tryOpenConnectionRetry ==
    /\ arg.fn = "tryOpenConnection"
    /\ ret.pc = "scheduled"
    /\ Len(ret.delays) < MaxRetries
    /\ ret' = [ret EXCEPT !.pc = "opening",
                          !.retryDelay = nextRetryDelay(ret.retryDelay, arg.connectTimeout)]
    /\ UNCHANGED <<poolVars, task, wireVars, arg>>

RetryNext ==
    \/ OtherConnectionOpens
    \/ tryOpenConnectionThen
    \/ tryOpenConnectionCatch
    \/ tryOpenConnectionRetry

RetrySpec == RetryInit /\ [][RetryNext]_vars

\* C28, as the code has it: a failed attempt sets a retry timer if and only if
\* openConnections.length < minConnections when it fails; the first delay of a chain
\* is 16 ms and every later one is min(4096, connectTimeout, 2 * the one before), so
\* no delay after the first exceeds 4096 ms or connectTimeout; and the delays never
\* decrease when connectTimeout >= 16 ms.
C28_RetryDelays ==
    arg.fn = "tryOpenConnection" =>
        LET d == ret.delays
        IN /\ ret.pc = "scheduled" => ret.openAtFailure < arg.minConnections
           /\ ret.pc = "gaveUp" => ret.openAtFailure >= arg.minConnections
           /\ Len(d) >= 1 => d[1] = 16
           /\ \A i \in 2..Len(d) :
                 /\ d[i] = Min(4096, Min(arg.connectTimeout, 2 * d[i - 1]))
                 /\ d[i] <= 4096
                 /\ arg.connectTimeout >= 16 => d[i] >= d[i - 1]

\* a chain with the default connectTimeout whose delays have reached 4096 ms and
\* stayed there
C28_Witness ==
    /\ arg.fn = "tryOpenConnection"
    /\ arg.connectTimeout = 15000
    /\ Len(ret.delays) = 10
    /\ ret.delays[8] = 2048 /\ ret.delays[9] = 4096 /\ ret.delays[10] = 4096
    /\ ret.pc = "scheduled"

\* C28, as stated: the delays of a chain never decrease.
C28_DelaysNeverDecrease ==
    arg.fn = "tryOpenConnection" =>
        \A i \in 2..Len(ret.delays) : ret.delays[i] >= ret.delays[i - 1]

\* ------------------------------------- handleBackendMessage, byte by byte
\* One call of handleBackendMessage and the bytes of the server's answer to its
\* batch, arriving in 'data' events of any sizes. ret.listening: onData is
\* registered on the connection; ret.dataLeftover: the length of dataLeftover;
\* ret.next: the frame at which the bytes not yet consumed start; ret.received: the
\* frames messageHandler was called with; ret.arrived: the bytes that have arrived;
\* ret.unheard: the bytes that arrived after onComplete().
ReaderCalls ==
    {[fn |-> "handleBackendMessage", h |-> handleQueryPreparation, frames |-> r] :
        r \in Responses("prep", TRUE)}
    \cup {[fn |-> "handleBackendMessage", h |-> handleQueryExecution(FALSE), frames |-> r] :
        r \in Responses("exec", TRUE)}
    \cup {[fn |-> "handleBackendMessage", h |-> handleSimpleQueryExecution, frames |-> r] :
        r \in Responses("commit", TRUE)}

NewReader(h) ==
    [h |-> h, listening |-> TRUE, dataLeftover |-> 0, next |-> 1, received |-> <<>>,
     res |-> "pending", arrived |-> 0, unheard |-> 0]

\* onData(data) where data, after Buffer.concat with dataLeftover, holds byteLength
\* bytes that start at frame r.next.
RECURSIVE onDataBytes(_, _, _)
onDataBytes(frames, r, byteLength) ==
    IF byteLength <= 5
    THEN [r EXCEPT !.dataLeftover = byteLength]
    ELSE LET m == frames[r.next]
             messageSize == ByteLength(m)
         IN IF messageSize > byteLength
            THEN [r EXCEPT !.dataLeftover = byteLength]
            ELSE LET x == messageHandler(r.h, m)
                     failed == x.resp = "FAIL" \/ (x.resp = "UNPROCESSED" /\ IsErrorResponse(m))
                     done == x.resp = "DONE_FINAL"
                     after == [r EXCEPT !.h = x.h,
                                        !.dataLeftover = 0,
                                        !.next = @ + 1,
                                        !.received = Append(@, m),
                                        !.listening = IF failed \/ done THEN FALSE ELSE @,
                                        !.res = IF r.res # "pending" THEN r.res
                                                ELSE IF failed THEN "rejected"
                                                ELSE IF done THEN "resolved"
                                                ELSE "pending"]
                 IN IF byteLength > messageSize
                    THEN onDataBytes(frames, after, byteLength - messageSize)
                    ELSE after

RECURSIVE TotalLength(_)
TotalLength(frames) == IF frames = <<>> THEN 0 ELSE ByteLength(Head(frames)) + TotalLength(Tail(frames))

ReaderInit ==
    /\ NotRunning
    /\ arg \in ReaderCalls
    /\ ret = NewReader(arg.h)

\* A 'data' event with the next n bytes of the stream.
SocketRead(n) ==
    /\ arg.fn = "handleBackendMessage"
    /\ ret.arrived + n <= TotalLength(arg.frames)
    /\ ret' = IF ret.listening
              THEN [onDataBytes(arg.frames, ret, ret.dataLeftover + n) EXCEPT !.arrived = @ + n]
              ELSE [ret EXCEPT !.arrived = @ + n, !.unheard = @ + n]
    /\ UNCHANGED <<poolVars, task, wireVars, arg>>

ReaderNext == \E n \in 1..TotalLength(arg.frames) : SocketRead(n)

ReaderSpec == ReaderInit /\ [][ReaderNext]_vars

\* The reader after one 'data' event with all the bytes of the stream.
SingleChunk == onDataBytes(arg.frames, NewReader(arg.h), TotalLength(arg.frames))

\* C29: however the bytes of a sequence of frames are split into socket reads, once
\* all of them have arrived the phase's handler has received the same sequence of
\* frames as when they arrive in a single chunk, and the phase ended the same way.
C29_ReaderIndependentOfChunking ==
    (arg.fn = "handleBackendMessage" /\ ret.arrived = TotalLength(arg.frames)) =>
        /\ ret.received = SingleChunk.received
        /\ ret.res = SingleChunk.res

\* C30: the reader withholds bytes only when fewer than 5 bytes are buffered or the
\* frame is incomplete: while the phase lasts, no complete frame stays in
\* dataLeftover after a 'data' event.
C30_CompleteFrameDispatchedAtOnce ==
    (arg.fn = "handleBackendMessage" /\ ret.listening /\ ret.next <= Len(arg.frames)) =>
        ret.dataLeftover < ByteLength(arg.frames[ret.next])

\* ------------------------------------------------------ handleStartupPhase
\* The messages a server may send during startup. An Authentication message
\* carries its request; a SaslFinal carries a signature, and followed says whether a
\* zero byte follows it in the buffer handed to the handler (the next message's).
MaxStartupMessages == 4

\* res[1] of createSaslContinueResponseMessage: hmac(serverKey, authMessage)
ComputedServerSignature == "hmac(serverKey, authMessage)"

BackendKeyData == "K"
Authentication(authRes) == [type |-> "R", authRes |-> authRes, signature |-> "", followed |-> TRUE]
SaslFinal(signature, followed) ==
    [type |-> "R", authRes |-> "SaslFinal", signature |-> signature, followed |-> followed]
Plain(type) == [type |-> type, authRes |-> "none", signature |-> "", followed |-> TRUE]

StartupMessages ==
    {Authentication(a) : a \in {"Sasl", "SaslContinue", "Ok", "KerberosV5"}}
    \cup {SaslFinal(s, f) : s \in {ComputedServerSignature, "forged", ""}, f \in BOOLEAN}
    \cup {Plain(t) : t \in {BackendKeyData, ReadyForQuery, ErrorResponse}}

\* let authOk = false, cancelKey, nonce = '', serverSignature = ''
NewStartup == [authOk |-> FALSE, cancelKey |-> FALSE, nonce |-> "", serverSignature |-> ""]

\* data.toString('utf8', 11, data.indexOf('\0', 11) - 1): the signature up to the
\* byte before the first zero byte; without a zero byte the end is -2 and the text
\* is empty.
serverResponse(m) == IF m.followed THEN m.signature ELSE ""

\* The messageHandler of handleStartupPhase.
startupMessageHandler(h, m) ==
    IF m.type = "R"
    THEN CASE m.authRes = "Sasl" ->
                [resp |-> "DONE_PARTIAL", h |-> [h EXCEPT !.nonce = "randomBytes"]]
           [] m.authRes = "SaslContinue" ->
                [resp |-> "DONE_PARTIAL", h |-> [h EXCEPT !.serverSignature = ComputedServerSignature]]
           [] m.authRes = "SaslFinal" ->
                [resp |-> IF serverResponse(m) = h.serverSignature THEN "DONE_PARTIAL" ELSE "FAIL",
                 h |-> h]
           [] m.authRes = "Ok" ->
                [resp |-> "DONE_PARTIAL", h |-> [h EXCEPT !.authOk = TRUE]]
           [] OTHER -> [resp |-> "FAIL", h |-> h]
    ELSE IF m.type = BackendKeyData
    THEN [resp |-> "DONE_PARTIAL", h |-> [h EXCEPT !.cancelKey = TRUE]]
    ELSE IF m.type = ReadyForQuery
    THEN [resp |-> IF h.authOk THEN "DONE_FINAL" ELSE "FAIL", h |-> h]
    ELSE [resp |-> "UNPROCESSED", h |-> h]

StartupInit ==
    /\ NotRunning
    /\ arg = [fn |-> "handleStartupPhase"]
    /\ ret = [h |-> NewStartup, res |-> "pending", received |-> <<>>]

\* onData with the next message of the server while the startup phase lasts.
StartupData(m) ==
    /\ arg.fn = "handleStartupPhase"
    /\ ret.res = "pending"
    /\ Len(ret.received) < MaxStartupMessages
    /\ LET x == startupMessageHandler(ret.h, m)
       IN ret' = [h |-> x.h,
                  res |-> IF x.resp = "FAIL" \/ (x.resp = "UNPROCESSED" /\ m.type = ErrorResponse)
                          THEN "rejected"
                          ELSE IF x.resp = "DONE_FINAL" THEN "resolved"
                          ELSE "pending",
                  received |-> Append(ret.received, m)]
    /\ UNCHANGED <<poolVars, task, wireVars, arg>>

StartupNext == \E m \in StartupMessages : StartupData(m)

StartupSpec == StartupInit /\ [][StartupNext]_vars

\* C31: a startup phase in which the server requested SASL authentication succeeds
\* only if a SaslFinal was received whose signature is the ServerSignature the
\* client computed.
C31_SaslSucceedsOnlyWithVerifiedSignature ==
    (/\ arg.fn = "handleStartupPhase"
     /\ ret.res = "resolved"
     /\ \E i \in 1..Len(ret.received) : ret.received[i] = Authentication("Sasl"))
    => \E j \in 1..Len(ret.received) :
          /\ ret.received[j].authRes = "SaslFinal"
          /\ ret.received[j].signature = ComputedServerSignature

\* -------------------------- handleQueryPreparation / handleQueryExecution
\* One phase and the messages it is handed, each with what the handler reads from
\* it: the parameter types of a ParameterDescription, the columns of a
\* RowDescription, the row of a DataRow.
MaxPhaseMessages == 4

Message(type, payload) == [type |-> type, payload |-> payload]

PhaseMessages ==
    {Message(t, <<>>) : t \in {ParseComplete, BindComplete, CommandComplete, NoData,
                               ReadyForQuery, ErrorResponse}}
    \cup {Message(ParameterDescription, p) : p \in {<<>>, <<"int4">>, <<"text", "int4">>}}
    \cup {Message(RowDescription, c) : c \in {<<"a">>, <<"b", "a">>}}
    \cup {Message(DataRow, r) : r \in {<<"row1">>, <<"row2">>}}

\* The phase's closure: the flags of the handler, and the arrays it pushes to.
NewPhase(h) ==
    [h |-> h, paramTypes |-> <<>>, rowMetadata |-> <<>>, rows |-> <<>>,
     res |-> "pending", data |-> <<>>, received |-> <<>>]

\* The handler is called with message m; on DONE_FINAL the promise is resolved with
\* { paramTypes, rowMetadata } or with { rows, rowsAffected }.
PhaseHandles(p, m) ==
    LET x == messageHandler(p.h, m.type)
        paramTypes == IF p.h.kind = "prep" /\ m.type = ParameterDescription
                      THEN p.paramTypes \o m.payload ELSE p.paramTypes
        rowMetadata == IF p.h.kind = "prep" /\ m.type = RowDescription
                       THEN p.rowMetadata \o m.payload ELSE p.rowMetadata
        rows == IF p.h.kind = "exec" /\ m.type = DataRow
                THEN Append(p.rows, m.payload) ELSE p.rows
        failed == x.resp = "FAIL" \/ (x.resp = "UNPROCESSED" /\ IsErrorResponse(m.type))
    IN [h |-> x.h, paramTypes |-> paramTypes, rowMetadata |-> rowMetadata, rows |-> rows,
        res |-> IF failed THEN "rejected"
                ELSE IF x.resp = "DONE_FINAL" THEN "resolved" ELSE "pending",
        data |-> IF x.resp # "DONE_FINAL" THEN <<>>
                 ELSE IF p.h.kind = "prep"
                 THEN [paramTypes |-> paramTypes, rowMetadata |-> rowMetadata]
                 ELSE [rows |-> rows],
        received |-> Append(p.received, m)]

PhaseInit ==
    /\ NotRunning
    /\ \/ arg = [fn |-> "handleQueryPreparation", skipParse |-> FALSE]
       \/ \E skipParse \in BOOLEAN : arg = [fn |-> "handleQueryExecution", skipParse |-> skipParse]
    /\ ret = NewPhase(IF arg.fn = "handleQueryPreparation" THEN handleQueryPreparation
                      ELSE handleQueryExecution(arg.skipParse))

\* onData with the next message while the phase lasts.
PhaseData(m) ==
    /\ arg.fn \in {"handleQueryPreparation", "handleQueryExecution"}
    /\ ret.res = "pending"
    /\ Len(ret.received) < MaxPhaseMessages
    /\ ret' = PhaseHandles(ret, m)
    /\ UNCHANGED <<poolVars, task, wireVars, arg>>

PhaseNext == \E m \in PhaseMessages : PhaseData(m)

PhaseSpec == PhaseInit /\ [][PhaseNext]_vars

\* Was a message of this type received before the last one?
SeenBeforeLast(type) == \E i \in 1..(Len(ret.received) - 1) : ret.received[i].type = type

\* The payloads of the messages of a type, joined in the order received.
RECURSIVE PayloadsOf(_, _)
PayloadsOf(type, received) ==
    IF received = <<>> THEN <<>>
    ELSE (IF Head(received).type = type THEN Head(received).payload ELSE <<>>)
         \o PayloadsOf(type, Tail(received))

\* C32: the prepare phase stays pending until the first ReadyForQuery or NoData
\* (an ErrorResponse aside, which rejects it); at that message it succeeds exactly
\* when ParseComplete and ParameterDescription were received before it and
\* RowDescription was received before it or the message is NoData, and fails
\* otherwise; on success the metadata it returns holds the parameter types and the
\* columns in the order received.
C32_PreparePhaseOutcome ==
    arg.fn = "handleQueryPreparation" =>
        LET n == Len(ret.received)
            last == ret.received[n]
            ended == n > 0 /\ last.type \in {ReadyForQuery, NoData}
            complete == /\ SeenBeforeLast(ParseComplete)
                        /\ SeenBeforeLast(ParameterDescription)
                        /\ (SeenBeforeLast(RowDescription) \/ last.type = NoData)
        IN /\ \A i \in 1..(n - 1) : ret.received[i].type \notin {ReadyForQuery, NoData, ErrorResponse}
           /\ (ret.res = "pending") = (n = 0 \/ last.type \notin {ReadyForQuery, NoData, ErrorResponse})
           /\ (ret.res = "resolved") = (ended /\ complete)
           /\ ret.res = "resolved" =>
                 ret.data = [paramTypes |-> PayloadsOf(ParameterDescription, ret.received),
                             rowMetadata |-> PayloadsOf(RowDescription, ret.received)]

\* A statement with two parameters and no columns is prepared: the phase ends on NoData.
C32_Witness ==
    /\ arg.fn = "handleQueryPreparation"
    /\ ret.res = "resolved"
    /\ ret.received[Len(ret.received)].type = NoData
    /\ ret.data.paramTypes = <<"text", "int4">>
    /\ ret.data.rowMetadata = <<>>

MaxRuns == 3

QueryIds == {"", "q1", "q2"}

\* query.metadata: absent, what Describe returns for the statement, or a value the
\* caller wrote itself.
NoMetadata == "undefined"
DescribedMetadata == "fromDescribe"
QueryMetadata == {DescribedMetadata, "fromCaller"}

NoWrite == [id |-> "", messages |-> <<>>, held |-> {}]

\* openConnection: conn.preparedQueries = {}. listeners are the handlers registered
\* by conn.on('data', onData), in the order of registration; query.unsupported says
\* that a parameter's type is one createBindMessage has no case for.
NewConnection ==
    [preparedQueries |-> [id \in QueryIds |-> NoMetadata], statements |-> {},
     phase |-> "idle", query |-> [id |-> "", metadata |-> NoMetadata, unsupported |-> FALSE],
     listeners |-> <<>>, written |-> NoWrite, outcome |-> "none", runs |-> 0]

\* conn.write(Buffer.concat(messages)) for statement id; held is what the server
\* holds at that moment.
connWrite(c, id, messages) == [id |-> id, messages |-> messages, held |-> c.statements]

\* runExtendedQuery(conn, query), up to the return of the promise:
\* handleQueryExecution registers its handler, then the buffer is built and written.
\* When createBindMessage throws nothing is written and prepareAndRunQuery rejects.
runExtendedQuery(c, q) ==
    LET preparedQuery == q.id # "" /\ c.preparedQueries[q.id] # NoMetadata
        registered == [c EXCEPT !.query = q,
                                !.listeners = Append(@, handleQueryExecution(preparedQuery))]
    IN IF q.unsupported
       THEN [registered EXCEPT !.phase = "idle", !.outcome = "rejected"]
       ELSE [registered EXCEPT
                !.phase = "exec",
                !.written = connWrite(c, q.id, (IF preparedQuery THEN <<>> ELSE <<"Parse">>)
                                               \o <<"Bind", "Execute", "Sync">>)]

\* prepareQuery(conn, queryId, querySql) followed by what prepareAndRunQuery does
\* when its promise is already resolved.
prepareQuery(c, q) ==
    IF q.id # "" /\ c.preparedQueries[q.id] # NoMetadata
    THEN runExtendedQuery(c, [q EXCEPT !.metadata = c.preparedQueries[q.id]])
    ELSE [c EXCEPT !.phase = "prep",
                   !.query = q,
                   !.listeners = Append(@, handleQueryPreparation),
                   !.written = connWrite(c, q.id, <<"Parse", "Describe", "Sync">>)]

\* prepareAndRunQuery(conn, query, options) up to its first wait for the server.
prepareAndRunQueryOn(c, q) ==
    IF q.metadata = NoMetadata THEN prepareQuery(c, q) ELSE runExtendedQuery(c, q)

\* Does the write hold a message?
Wrote(w, message) == \E i \in 1..Len(w.messages) : w.messages[i] = message

\* The server's answer to a write. Parse of a name it holds is an error, as is Bind
\* of a name it does not hold; fails names the message the server rejects for a
\* reason of its own. After an error the server skips to Sync.
ParseRejected(c, fails) ==
    /\ Wrote(c.written, "Parse")
    /\ (fails = "Parse" \/ (c.written.id # "" /\ c.written.id \in c.statements))

StatementsAfter(c, fails) ==
    IF Wrote(c.written, "Parse") /\ ~ ParseRejected(c, fails) /\ c.written.id # ""
    THEN c.statements \cup {c.written.id} ELSE c.statements

ServerAnswer(c, fails) ==
    IF ParseRejected(c, fails) THEN <<ErrorResponse, ReadyForQuery>>
    ELSE (IF Wrote(c.written, "Parse") THEN <<ParseComplete>> ELSE <<>>)
         \o (IF Wrote(c.written, "Describe")
             THEN <<ParameterDescription, RowDescription>>
             ELSE IF fails = "Bind"
                     \/ (c.written.id # "" /\ c.written.id \notin StatementsAfter(c, fails))
             THEN <<ErrorResponse>>
             ELSE <<BindComplete, DataRow, CommandComplete>>)
         \o <<ReadyForQuery>>

\* Every registered handler is called with the answer and stays registered unless it
\* called onComplete(). The promise of the phase, whose handler was registered last,
\* settles on the answer: the .then of prepareQuery or of
\* runExtendedQuery stores the metadata, and prepareAndRunQuery goes on or ends.
AfterAnswer(c, fails) ==
    LET results == [i \in 1..Len(c.listeners) |-> onData(c.listeners[i], ServerAnswer(c, fails))]
        r == results[Len(c.listeners)]
        pending == SelectSeq(results, LAMBDA x : x.res = "pending")
        served == [c EXCEPT !.statements = StatementsAfter(c, fails),
                            !.listeners = [i \in 1..Len(pending) |-> pending[i].h]]
        id == c.query.id
    IN IF r.res # "resolved"
       THEN [served EXCEPT !.phase = "idle", !.outcome = "rejected"]
       ELSE IF c.phase = "prep"
       THEN runExtendedQuery(
                [served EXCEPT !.preparedQueries =
                    IF id # "" THEN [@ EXCEPT ![id] = DescribedMetadata] ELSE @],
                [c.query EXCEPT !.metadata = DescribedMetadata])
       ELSE [served EXCEPT !.preparedQueries =
                              IF id # "" THEN [@ EXCEPT ![id] = c.query.metadata] ELSE @,
                           !.phase = "idle", !.outcome = "resolved"]

CacheInit ==
    /\ NotRunning
    /\ arg = [fn |-> "prepareAndRunQuery"]
    /\ ret = NewConnection

\* run(query) on the connection.
Run(id, metadata, unsupported) ==
    /\ arg.fn = "prepareAndRunQuery"
    /\ ret.phase = "idle"
    /\ ret.runs < MaxRuns
    /\ ret' = prepareAndRunQueryOn(
                  [ret EXCEPT !.runs = @ + 1, !.outcome = "none", !.written = NoWrite],
                  [id |-> id, metadata |-> metadata, unsupported |-> unsupported])
    /\ UNCHANGED <<poolVars, task, wireVars, arg>>

\* The server answers the write and the client handles the answer.
Answer(fails) ==
    /\ arg.fn = "prepareAndRunQuery"
    /\ ret.phase \in {"prep", "exec"}
    /\ fails \in {"none"} \cup {m \in {"Parse", "Bind"} : Wrote(ret.written, m)}
    /\ ret' = AfterAnswer(ret, fails)
    /\ UNCHANGED <<poolVars, task, wireVars, arg>>

CacheNext ==
    \/ \E id \in QueryIds, metadata \in QueryMetadata \cup {NoMetadata}, unsupported \in BOOLEAN :
          Run(id, metadata, unsupported)
    \/ \E fails \in {"none", "Parse", "Bind"} : Answer(fails)

CacheSpec == CacheInit /\ [][CacheNext]_vars

\* C34: an id in preparedQueries stays there with the metadata it has, and a run of
\* that id writes no Parse.
C34_CachedStatementStays ==
    [][arg.fn = "prepareAndRunQuery" =>
         \A id \in QueryIds \ {""} :
            ret.preparedQueries[id] # NoMetadata =>
               /\ ret'.preparedQueries[id] = ret.preparedQueries[id]
               /\ (ret'.runs > ret.runs /\ ret'.query.id = id) => ~ Wrote(ret'.written, "Parse")]_vars

\* C35: no Parse is written for a non-empty name the server holds on the connection.
C35_NoParseOfHeldStatement ==
    arg.fn = "prepareAndRunQuery" =>
        ~ (Wrote(ret.written, "Parse") /\ ret.written.id # "" /\ ret.written.id \in ret.written.held)


\* C37: at most one phase handler is registered on the connection's data stream, and
\* none once the phase has settled or the run has failed.
C37_AtMostOnePhaseHandler ==
    arg.fn = "prepareAndRunQuery" =>
        /\ Len(ret.listeners) <= 1
        /\ ret.phase = "idle" => ret.listeners = <<>>

C38_IdleTimeoutSparesLeasedConnections ==
    [][\A s \in Socks :
          IdleTimeout(s) => ~ \E t \in Tasks : task[t].pc = "leased" /\ task[t].conn = s]_vars


\* ------------------------------------------- cancel() of one query future
\* One future returned by prepareAndRunQuery, the lease of its connection, and the
\* cancel connections its cancel() opens. lease says who holds the connection: the
\* query of this future, nobody (it is available), or a later borrower's query.
MaxFutureCancels == 2

NewFuture ==
    [settled |-> FALSE, cancelled |-> FALSE, timer |-> "armed", lease |-> "query",
     cancelConns |-> <<>>]

\* function cancel(): cancelled = true; cancelledPromise = cancelCurrentQuery(conn, options).
\* The cancel connection remembers whether the future had settled at the call.
cancel(f) ==
    [f EXCEPT !.cancelled = TRUE,
              !.cancelConns = Append(@, [st |-> "connecting", calledSettled |-> f.settled,
                                         leaseAtWrite |-> "none"])]

CancelInit ==
    /\ NotRunning
    /\ arg = [fn |-> "cancel"]
    /\ ret = NewFuture

\* The caller calls resultPromise.cancel().
FutureCancel ==
    /\ arg.fn = "cancel"
    /\ Len(ret.cancelConns) < MaxFutureCancels
    /\ ret' = cancel(ret)
    /\ UNCHANGED <<poolVars, task, wireVars, arg>>

\* setTimeout(cancel, options.queryTimeout) fires.
QueryTimeoutFires ==
    /\ arg.fn = "cancel"
    /\ ret.timer = "armed"
    /\ Len(ret.cancelConns) < MaxFutureCancels
    /\ ret' = [cancel(ret) EXCEPT !.timer = "fired"]
    /\ UNCHANGED <<poolVars, task, wireVars, arg>>

\* The async body ends: finally clearTimeout(timeoutId), the future settles, and
\* borrowConnection's finally lends the connection.
FutureSettles ==
    /\ arg.fn = "cancel"
    /\ ~ ret.settled
    /\ ret' = [ret EXCEPT !.settled = TRUE,
                          !.timer = IF @ = "armed" THEN "cleared" ELSE @,
                          !.lease = "nobody"]
    /\ UNCHANGED <<poolVars, task, wireVars, arg>>

\* A later borrower pops the connection and runs its own query on it.
OtherBorrows ==
    /\ arg.fn = "cancel"
    /\ ret.lease = "nobody"
    /\ ret' = [ret EXCEPT !.lease = "other"]
    /\ UNCHANGED <<poolVars, task, wireVars, arg>>

\* cancelCurrentQuery: 'connect' of the cancel connection, conn.cancelKey is written.
CancelKeyWritten(i) ==
    /\ arg.fn = "cancel"
    /\ i \in 1..Len(ret.cancelConns)
    /\ ret.cancelConns[i].st = "connecting"
    /\ ret' = [ret EXCEPT !.cancelConns[i].st = "written",
                          !.cancelConns[i].leaseAtWrite = ret.lease]
    /\ UNCHANGED <<poolVars, task, wireVars, arg>>

\* cancelCurrentQuery: 'error' of the cancel connection.
CancelConnectionError(i) ==
    /\ arg.fn = "cancel"
    /\ i \in 1..Len(ret.cancelConns)
    /\ ret.cancelConns[i].st = "connecting"
    /\ ret' = [ret EXCEPT !.cancelConns[i].st = "failed"]
    /\ UNCHANGED <<poolVars, task, wireVars, arg>>

CancelNext ==
    \/ FutureCancel
    \/ QueryTimeoutFires
    \/ FutureSettles
    \/ OtherBorrows
    \/ \E i \in 1..MaxFutureCancels : CancelKeyWritten(i)
    \/ \E i \in 1..MaxFutureCancels : CancelConnectionError(i)

CancelSpec == CancelInit /\ [][CancelNext]_vars

\* C40: a cancel() called after the future has settled writes no CancelRequest.
C40_CancelAfterSettleSendsNothing ==
    arg.fn = "cancel" =>
        \A i \in 1..Len(ret.cancelConns) :
            ret.cancelConns[i].calledSettled => ret.cancelConns[i].st # "written"


\* ------------------------------------------------ the pool with a willing server
\* The pool when every connection attempt succeeds, the server answers every query,
\* every transaction body ends, the server closes no connection and destroy() is
\* not called. What is left are the pool's own steps and its idle timeout.

\* The callback's result future settles: the server's answers arrive on the live
\* socket and the body ends.
SettleOnAnswer(t) ==
    /\ task[t].pc = "leased"
    /\ sock[task[t].conn] = "alive"
    /\ task' = [task EXCEPT ![t].pc = "settled"]
    /\ UNCHANGED poolVars

\* 'close' of a socket the idle timeout destroyed: the pool's listener splices it out
\* of the arrays, and the onFailure of the phase registered on it rejects the lease's
\* future. A callback that is called with the connection after this event registers
\* its listeners on a closed socket and writes to it: no event comes any more.
SocketCloseRejects(s) ==
    /\ sock[s] = "destroyed"
    /\ sock' = [sock EXCEPT ![s] = "closed"]
    /\ openConnections' = SpliceOut(openConnections, s)
    /\ availableConnections' = SpliceOut(availableConnections, s)
    /\ task' = [t \in Tasks |-> IF task[t].pc = "leased" /\ task[t].conn = s
                                THEN [task[t] EXCEPT !.pc = "settled"] ELSE task[t]]
    /\ UNCHANGED <<minConnections, maxConnections, openingConnections,
                   waitingForConnection, retryTimers>>

LiveNext ==
    \/ \E t \in Tasks : borrowConnection(t, "op") /\ UNCHANGED <<wireVars, callVars>>
    \/ \E t \in Tasks : RunWaiter(t) /\ UNCHANGED <<wireVars, callVars>>
    \/ \E t \in Tasks : CancelWaiting(t) /\ UNCHANGED <<wireVars, callVars>>
    \/ \E t \in Tasks : SettleOnAnswer(t) /\ UNCHANGED <<wireVars, callVars>>
    \/ \E t \in Tasks : Finally(t) /\ UNCHANGED <<wireVars, callVars>>
    \/ \E s \in Socks : ConnectSuccess(s) /\ UNCHANGED <<wireVars, callVars>>
    \/ \E s \in Socks : IdleTimeout(s) /\ UNCHANGED <<wireVars, callVars>>
    \/ \E s \in Socks : SocketCloseRejects(s) /\ UNCHANGED <<wireVars, callVars>>

\* Promise reactions run, connection attempts succeed, answers arrive and destroyed
\* sockets close. Nothing obliges a caller to borrow or cancel, or a timer to fire.
LiveFairness ==
    /\ \A t \in Tasks : WF_vars(RunWaiter(t) /\ UNCHANGED <<wireVars, callVars>>)
    /\ \A t \in Tasks : WF_vars(SettleOnAnswer(t) /\ UNCHANGED <<wireVars, callVars>>)
    /\ \A t \in Tasks : WF_vars(Finally(t) /\ UNCHANGED <<wireVars, callVars>>)
    /\ \A s \in Socks : WF_vars(ConnectSuccess(s) /\ UNCHANGED <<wireVars, callVars>>)
    /\ \A s \in Socks : WF_vars(SocketCloseRejects(s) /\ UNCHANGED <<wireVars, callVars>>)

LiveSpec == Init /\ [][LiveNext]_vars /\ LiveFairness

\* C39: with a willing server and no destroy(), every future that borrowConnection
\* returned eventually settles.
C39_EveryFutureSettles ==
    \A t \in Tasks :
        (task[t].pc \in {"waiting", "handed", "leased"})
            ~> (task[t].pc \in {"settled", "returned", "cancelled"})

====
